---------------------------- MODULE Spec2Model ----------------------------
(***************************************************************************)
(* Model of the MigrantNav ingestion pipeline (ingest.py): segmentation    *)
(* of page-by-page PDF text into legal units, topic classification,        *)
(* content-addressed identifiers and the upsert of units into the graph    *)
(* store.                                                                  *)
(*                                                                         *)
(* Text is modelled character by character: a Python str is a sequence of  *)
(* one-character strings, so that splitlines, strip, slicing and the       *)
(* ARTICLE_RE regular expression are computed as the code computes them.   *)
(***************************************************************************)
EXTENDS Integers, Sequences, FiniteSets, TLC

VARIABLES
    pc,         \* position of the program: the function about to run / its outcome
    args,       \* arguments of the function under analysis
    ret,        \* value returned by the function under analysis
    trace,      \* the (start, end) windows visited by a fixed-window loop, per page
    graph,      \* the Neo4j database: nodes, relationships, constraints, indexes
    files,      \* the PDF paths that exist on disk
    pdfs,       \* the page texts of each PDF
    documents,  \* the documents parameter of the ingest_* call in progress
    doc_idx,    \* position of its "for doc in documents" loop
    after,      \* where the caller resumes when the ingest_* call returns
    runs,       \* completed runs of the program
    embedded,   \* texts sent to embeddings.embed_query
    queries,    \* parameters of the unit upserts sent to graph.query, in order
    snapshot    \* the database as it was when the first of two ingest_* calls returned

fvars == <<pc, args, ret, trace>>
svars == <<graph, files, pdfs, documents, doc_idx, after, runs, embedded, queries, snapshot>>
vars  == <<pc, args, ret, trace, graph, files, pdfs, documents, doc_idx, after, runs,
           embedded, queries, snapshot>>

(***************************************************************************)
(* Bounds of the analysis.                                                 *)
(***************************************************************************)
MaxPages == 2

MaxDocs == 2
MaxRuns == 2

(***************************************************************************)
(* Python str primitives.                                                  *)
(***************************************************************************)
\* A string literal as a sequence of characters.
Chars(s) == [i \in 1..Len(s) |-> SubSeq(s, i, i)]

\* "x" * n
Rep(c, n) == [i \in 1..n |-> c]

\* Python's None.
None == -1

\* Characters str.strip() removes and the regex class \s matches.
IsSpace(c) == c \in {" ", "\t", "\n", "\r", "\f"}

\* Line boundaries of str.splitlines().
IsLineBreak(c) == c \in {"\n", "\r", "\f"}

\* The regex class \d.
IsDigit(c) == c \in {"0", "1", "2", "3", "4", "5", "6", "7", "8", "9"}

DigitVal(c) ==
    CASE c = "0" -> 0 [] c = "1" -> 1 [] c = "2" -> 2 [] c = "3" -> 3
      [] c = "4" -> 4 [] c = "5" -> 5 [] c = "6" -> 6 [] c = "7" -> 7
      [] c = "8" -> 8 [] c = "9" -> 9

UpperCase == Chars("ABCDEFGHIJKLMNOPQRSTUVWXYZ")
LowerCase == Chars("abcdefghijklmnopqrstuvwxyz")

\* str.lower() on one character.
LowerChar(c) ==
    IF \E i \in 1..26 : UpperCase[i] = c
    THEN LowerCase[CHOOSE i \in 1..26 : UpperCase[i] = c]
    ELSE c

\* str.lower()
Lower(s) == [i \in 1..Len(s) |-> LowerChar(s[i])]

SetMin(S) == CHOOSE x \in S : \A y \in S : x <= y
SetMax(S) == CHOOSE x \in S : \A y \in S : x >= y

\* str.strip(): leading and trailing whitespace removed.
Strip(s) ==
    LET keep == {i \in 1..Len(s) : ~IsSpace(s[i])}
    IN  IF keep = {} THEN <<>> ELSE SubSeq(s, SetMin(keep), SetMax(keep))

\* The slice s[start:end] with 0 <= start, Python's clamping at len(s).
Slice(s, start, end) ==
    SubSeq(s, start + 1, IF end < Len(s) THEN end ELSE Len(s))

\* needle in haystack
Contains(haystack, needle) ==
    \E i \in 0..(Len(haystack) - Len(needle)) :
        SubSeq(haystack, i + 1, i + Len(needle)) = needle

\* str.splitlines(): the positions where a line boundary starts ("\r\n" is one
\* boundary, so a "\n" that follows "\r" starts none).
LineBoundaryStarts(s) ==
    {i \in 1..Len(s) : IsLineBreak(s[i]) /\ ~(s[i] = "\n" /\ i > 1 /\ s[i - 1] = "\r")}

\* The position after the boundary that starts at i.
AfterBoundary(s, i) ==
    IF s[i] = "\r" /\ i < Len(s) /\ s[i + 1] = "\n" THEN i + 2 ELSE i + 1

\* str.splitlines(): the text between boundaries; a final boundary opens no line.
SplitLines(s) ==
    LET B      == LineBoundaryStarts(s)
        nth(k) == CHOOSE t \in B : Cardinality({u \in B : u < t}) = k - 1
        from(k) == IF k = 1 THEN 1 ELSE AfterBoundary(s, nth(k - 1))
        m      == Cardinality(B)
        tail   == IF m = 0 THEN 1 ELSE AfterBoundary(s, nth(m))
        n      == IF tail <= Len(s) THEN m + 1 ELSE m
    IN  [k \in 1..n |->
            IF k <= m THEN SubSeq(s, from(k), nth(k) - 1)
            ELSE SubSeq(s, tail, Len(s))]

\* sep.join(parts)
RECURSIVE Join(_, _)
Join(sep, parts) ==
    IF parts = <<>> THEN <<>>
    ELSE IF Len(parts) = 1 THEN parts[1]
    ELSE parts[1] \o sep \o Join(sep, Tail(parts))

\* "\n".join(lines)
JoinLines(ls) == Join(<<"\n">>, ls)

\* int(digits)
RECURSIVE ToInt(_)
ToInt(ds) ==
    IF ds = <<>> THEN 0
    ELSE 10 * ToInt(SubSeq(ds, 1, Len(ds) - 1)) + DigitVal(ds[Len(ds)])

(***************************************************************************)
(* ARTICLE_RE = re.compile(r"^Article\s+(\d+)", re.IGNORECASE)             *)
(***************************************************************************)
ArticleWord == Chars("article")

\* ARTICLE_RE.match(s): group(1), the digits captured, or <<>> for no match.
ARTICLE_RE_match(s) ==
    LET n     == Len(ArticleWord)
        rest  == {i \in (n + 1)..Len(s) : ~IsSpace(s[i])}
        k     == IF rest = {} THEN Len(s) + 1 ELSE SetMin(rest)
        stop  == {i \in k..Len(s) : ~IsDigit(s[i])}
        last  == IF stop = {} THEN Len(s) ELSE SetMin(stop) - 1
    IN  IF /\ Len(s) >= n + 2
           /\ \A i \in 1..n : LowerChar(s[i]) = ArticleWord[i]
           /\ k > n + 1
           /\ k <= Len(s)
           /\ IsDigit(s[k])
        THEN SubSeq(s, k, last)
        ELSE <<>>

\* ARTICLE_RE.findall(s): the pattern is anchored with "^" and compiled without
\* re.MULTILINE, so it can only match at the start of s.
ARTICLE_RE_findall(s) ==
    LET m == ARTICLE_RE_match(s) IN IF m = <<>> THEN <<>> ELSE <<m>>

(***************************************************************************)
(* The database.  A node is [nid, label, props], a relationship is         *)
(* [rid, from, type, to]; nid and rid are the store's internal identities. *)
(***************************************************************************)
EmptyGraph == [nodes |-> {}, rels |-> {}, constraints |-> {}, indexes |-> {}]

\* The analyses of the pure functions touch no store and no file.
NoStore ==
    /\ graph = EmptyGraph
    /\ files = {}
    /\ pdfs = <<>>
    /\ documents = <<>>
    /\ doc_idx = 0
    /\ after = ""
    /\ runs = 0
    /\ embedded = {}
    /\ queries = <<>>
    /\ snapshot = EmptyGraph

(***************************************************************************)
(* split_pdf_into_articles (the article-boundary strategy).                *)
(* A loaded page is [page_content, page]; a Document is                    *)
(* [page_content, metadata].                                               *)
(***************************************************************************)
\* PyPDFLoader(pdf_path).load(): one raw document per page, numbered from 0.
LoadPdf(texts) == [i \in 1..Len(texts) |-> [page_content |-> texts[i], page |-> i - 1]]

\* os.path.basename(pdf_path) of the six configured paths.
basename(pdf_path) ==
    CASE pdf_path = "PDF_DUBLIN"       -> "DUBLIN REGULATIONS.pdf"
      [] pdf_path = "PDF_CHARTER"      -> "CHARTER_OF_FUNDAMENTAL_RIGHTS.pdf"
      [] pdf_path = "PDF_DE_PROC"      -> "DE_ASYLUM_PROCEDURE_STAGES.pdf"
      [] pdf_path = "PDF_SUBSIDIARY"   -> "Subsidiary Protection - Third-country nations.pdf"
      [] pdf_path = "PDF_FREE_MOVE"    -> "Guidance on the right of free movement of EU citizens and their families.pdf"
      [] pdf_path = "PDF_REFUGEE_CONV" -> "1951-Refugee Convention-1967-protocol (UNHCR Mandate).pdf"

\* all_text after the page loop: every page's text followed by "\n".
RECURSIVE all_text(_)
all_text(raw_docs) ==
    IF raw_docs = <<>> THEN <<>>
    ELSE all_text(SubSeq(raw_docs, 1, Len(raw_docs) - 1))
            \o raw_docs[Len(raw_docs)].page_content \o <<"\n">>

\* page_offsets: (start index of the page in all_text, page number).
page_offsets(raw_docs) ==
    [i \in 1..Len(raw_docs) |->
        [off  |-> Len(all_text(SubSeq(raw_docs, 1, i - 1))),
         page |-> raw_docs[i].page]]

\* line_offsets: the running char_index, advanced by len(line) + 1 per line.
RECURSIVE line_offsets(_)
line_offsets(lines) ==
    IF lines = <<>> THEN <<>>
    ELSE LET front == SubSeq(lines, 1, Len(lines) - 1)
             prev  == line_offsets(front)
         IN  Append(prev,
                    IF front = <<>> THEN 0
                    ELSE prev[Len(prev)] + Len(front[Len(front)]) + 1)

\* guess_page: scanning page_offsets in reverse, the first page starting at or
\* before start_char; 0 when there is none.
guess_page(offsets, start_char) ==
    LET hit == {i \in 1..Len(offsets) : start_char >= offsets[i].off}
    IN  IF hit = {} THEN 0 ELSE offsets[SetMax(hit)].page

\* meta_key of the emitted documents.
MetaKey(is_charter, meta_key_override) ==
    IF meta_key_override # "" THEN meta_key_override
    ELSE IF is_charter THEN "charter_article_number" ELSE "article_number"

\* The Document built from the unit being collected.
ArticleDocument(st, ctx) ==
    [page_content |-> Strip(JoinLines(st.current_lines)),
     metadata |-> (ctx.meta_key :> st.current_article_num)
                    @@ [source |-> ctx.source,
                        page   |-> guess_page(ctx.page_offsets, st.current_start_idx)]]

\* "if current_article_num is not None and current_lines: articles.append(...)"
FlushSkipped(st, ctx) == st.articles

FlushArticle(st, ctx) ==
    IF st.current_article_num # None /\ st.current_lines # <<>>
    THEN Append(st.articles, ArticleDocument(st, ctx))
    ELSE st.articles

\* m = article_regex.match(line.strip())
LineMatchUnstripped(line) == ARTICLE_RE_match(line)

LineMatch(line) == ARTICLE_RE_match(Strip(line))

\* The else branch of the line loop: a line that is no boundary.
Continuation(st, line) ==
    IF st.current_article_num # None
    THEN [st EXCEPT !.current_lines = Append(@, line)]
    ELSE st

\* One iteration of "for i, line in enumerate(lines)".
ArticleLineStep(st, i, line, ctx) ==
    LET m == LineMatch(line)
    IN  IF m # <<>>
        THEN [articles            |-> FlushArticle(st, ctx),
              current_lines       |-> <<line>>,
              current_article_num |-> ToInt(m),
              current_start_idx   |-> ctx.line_offsets[i]]
        ELSE Continuation(st, line)

RECURSIVE ArticleLineLoop(_, _, _, _)
ArticleLineLoop(st, i, lines, ctx) ==
    IF i > Len(lines) THEN st
    ELSE ArticleLineLoop(ArticleLineStep(st, i, lines[i], ctx), i + 1, lines, ctx)

split_pdf_into_articles(pdf_path, raw_docs, is_charter, meta_key_override) ==
    LET lines == SplitLines(all_text(raw_docs))
        ctx   == [page_offsets |-> page_offsets(raw_docs),
                  line_offsets |-> line_offsets(lines),
                  meta_key     |-> MetaKey(is_charter, meta_key_override),
                  source       |-> basename(pdf_path)]
        st0   == [articles            |-> <<>>,
                  current_lines       |-> <<>>,
                  current_article_num |-> None,
                  current_start_idx   |-> 0]
        st    == ArticleLineLoop(st0, 1, lines, ctx)
    IN  FlushArticle(st, ctx)

\* split_geneva_into_articles
split_geneva_into_articles(pdf_path, raw_docs) ==
    split_pdf_into_articles(pdf_path, raw_docs, FALSE, "geneva_article_number")

(***************************************************************************)
(* Analysis of split_pdf_into_articles: the function is called once on a   *)
(* PDF of up to MaxPages pages drawn from ArticlePageSamples.              *)
(***************************************************************************)
ArticlePageSamples ==
    { Chars("Article 1\nFoo.\nArticle 2\nBar."),
      Chars("Preamble\n  Article 3\nBaz \n\n"),
      Chars("intro\r\nARTICLE  12 Scope\r\ntext"),
      Chars("Particle 1\nArticle X\nArticle7\nArticle"),
      Chars(""),
      Chars("article\t4\n\n"),
      Chars("Foo.") }

PdfsOf(samples, n) == UNION {[1..k -> samples] : k \in 0..n}

\* The three ways ingest_all calls the splitter.
ArticleCalls ==
    { [pdf_path |-> "PDF_DUBLIN",       is_charter |-> FALSE, meta_key_override |-> ""],
      [pdf_path |-> "PDF_CHARTER",      is_charter |-> TRUE,  meta_key_override |-> ""],
      [pdf_path |-> "PDF_REFUGEE_CONV", is_charter |-> FALSE,
       meta_key_override |-> "geneva_article_number"] }

InitArticles ==
    /\ pc = "split_pdf_into_articles"
    /\ \E c \in ArticleCalls, texts \in PdfsOf(ArticlePageSamples, MaxPages) :
          args = [call |-> c, raw_docs |-> LoadPdf(texts)]
    /\ ret = <<>>
    /\ trace = <<>>
    /\ NoStore

SplitPdfIntoArticles ==
    /\ pc = "split_pdf_into_articles"
    /\ ret' = split_pdf_into_articles(args.call.pdf_path, args.raw_docs,
                                      args.call.is_charter, args.call.meta_key_override)
    /\ pc' = "returned"
    /\ UNCHANGED <<args, trace>>
    /\ UNCHANGED svars

NextArticles == SplitPdfIntoArticles

SpecArticles == InitArticles /\ [][NextArticles]_vars

\* The source lines of the call under analysis, and the boundary lines among them.
SrcLines == SplitLines(all_text(args.raw_docs))

Boundaries == {i \in 1..Len(SrcLines) : ARTICLE_RE_match(Strip(SrcLines[i])) # <<>>}

RawBoundaries == {i \in 1..Len(SrcLines) : ARTICLE_RE_match(SrcLines[i]) # <<>>}

\* The k-th boundary in source order, and the lines of the unit it opens.
RECURSIVE NthOf(_, _)
NthOf(S, k) == IF k = 1 THEN SetMin(S) ELSE NthOf(S \ {SetMin(S)}, k - 1)

UnitLines(k) ==
    LET b == NthOf(Boundaries, k)
        e == IF k = Cardinality(Boundaries) THEN Len(SrcLines)
             ELSE NthOf(Boundaries, k + 1) - 1
    IN  SubSeq(SrcLines, b, e)

ArticleNumberOf(doc) ==
    LET md == doc.metadata
    IN  IF "article_number" \in DOMAIN md THEN md["article_number"]
        ELSE IF "charter_article_number" \in DOMAIN md THEN md["charter_article_number"]
        ELSE md["geneva_article_number"]

\* C1 as stated: the number of units equals the number of source lines that match
\* "Article <N>" at line start; hence no match yields no unit, and lines before the
\* first matching line appear in no unit.
C1_UnitsEqualLineStartMatches ==
    pc = "returned" => Len(ret) = Cardinality(RawBoundaries)

\* C1 amended: the number of units equals the number of source lines whose content,
\* trimmed of leading and trailing whitespace, matches "Article <N>" at its start
\* (case-insensitive); no such line yields no unit; and every line of every unit
\* comes from a source line at or after the first such line.
C1_UnitsEqualTrimmedMatches ==
    pc = "returned" =>
        /\ Len(ret) = Cardinality(Boundaries)
        /\ (Boundaries = {} => ret = <<>>)
        /\ \A k \in 1..Len(ret) :
             \A l \in 1..Len(SplitLines(ret[k].page_content)) :
                \E j \in SetMin(Boundaries)..Len(SrcLines) :
                    Strip(SplitLines(ret[k].page_content)[l]) = Strip(SrcLines[j])

\* C1: a call has returned on a text with a preamble, an indented boundary line
\* and a boundary line at line start.
C1_Witness ==
    /\ pc = "returned"
    /\ Len(ret) = 3
    /\ 1 \notin Boundaries
    /\ RawBoundaries # Boundaries
    /\ RawBoundaries # {}

\* C2 as stated: each unit is exactly its boundary line followed by every source
\* line before the next boundary line, and carries the number of its boundary line.
C2_UnitIsExactlyItsLines ==
    pc = "returned" =>
        /\ Len(ret) = Cardinality(Boundaries)
        /\ \A k \in 1..Len(ret) :
             /\ ret[k].page_content = JoinLines(UnitLines(k))
             /\ ArticleNumberOf(ret[k]) = ToInt(ARTICLE_RE_match(Strip(UnitLines(k)[1])))

ExamplePdf == LoadPdf(<<Chars("Article 1\nFoo.\nArticle 2\nBar.")>>)

\* C2 amended: each unit is its boundary line followed by every source line before
\* the next boundary line, in source order, joined by "\n" and trimmed of leading and
\* trailing whitespace as a whole, and carries the integer of its own boundary line;
\* "Article 1\nFoo.\nArticle 2\nBar." yields {"Article 1\nFoo.", 1}, {"Article 2\nBar.", 2}.
C2_UnitIsItsLinesTrimmed ==
    pc = "returned" =>
        /\ Len(ret) = Cardinality(Boundaries)
        /\ \A k \in 1..Len(ret) :
             /\ ret[k].page_content = Strip(JoinLines(UnitLines(k)))
             /\ ArticleNumberOf(ret[k]) = ToInt(ARTICLE_RE_match(Strip(UnitLines(k)[1])))
        /\ args.raw_docs = ExamplePdf =>
             /\ Len(ret) = 2
             /\ ret[1].page_content = Chars("Article 1\nFoo.")
             /\ ArticleNumberOf(ret[1]) = 1
             /\ ret[2].page_content = Chars("Article 2\nBar.")
             /\ ArticleNumberOf(ret[2]) = 2

\* C2: a call has returned a unit of several lines whose source lines end in
\* whitespace, followed by another unit.
C2_Witness ==
    /\ pc = "returned"
    /\ Len(ret) >= 2
    /\ \E k \in 1..(Len(ret) - 1) :
          /\ Len(UnitLines(k)) >= 2
          /\ ret[k].page_content # JoinLines(UnitLines(k))

(***************************************************************************)
(* The fixed-window strategy.  A loop state is [start, chunks, windows]:   *)
(* windows records, per iteration, the page and the loop's start and end.  *)
(***************************************************************************)
\* A window loop that moves on by the whole chunk size, leaving the overlap out.
RECURSIVE DEWindowLoopIgnoringOverlap(_, _, _, _, _)
DEWindowLoopIgnoringOverlap(d, source, chunk_size, overlap, st) ==
    LET text == d.page_content IN
    IF ~(st.start < Len(text)) THEN st
    ELSE LET end        == st.start + chunk_size
             chunk_text == Slice(text, st.start, end)
             seen       == Append(st.windows,
                                  [page |-> d.page, start |-> st.start, end |-> end])
         IN  IF Strip(chunk_text) = <<>>
             THEN [st EXCEPT !.windows = seen]
             ELSE DEWindowLoopIgnoringOverlap(d, source, chunk_size, overlap,
                    [start   |-> end,
                     chunks  |-> Append(st.chunks,
                                   [page_content |-> Strip(chunk_text),
                                    metadata |-> [source |-> source, page |-> d.page,
                                                  domain |-> "de_procedure"]]),
                     windows |-> seen])

\* split_de_procedure_into_chunks: the while loop over one page.
RECURSIVE DEWindowLoop(_, _, _, _, _)
DEWindowLoop(d, source, chunk_size, overlap, st) ==
    LET text == d.page_content IN
    IF ~(st.start < Len(text)) THEN st
    ELSE LET end        == st.start + chunk_size
             chunk_text == Slice(text, st.start, end)
             seen       == Append(st.windows,
                                  [page |-> d.page, start |-> st.start, end |-> end])
         IN  IF Strip(chunk_text) = <<>>
             THEN [st EXCEPT !.windows = seen]          \* break
             ELSE DEWindowLoop(d, source, chunk_size, overlap,
                    [start   |-> end - overlap,
                     chunks  |-> Append(st.chunks,
                                   [page_content |-> Strip(chunk_text),
                                    metadata |-> [source |-> source, page |-> d.page,
                                                  domain |-> "de_procedure"]]),
                     windows |-> seen])

\* split_free_move_into_chunks: the while loop over one page.
RECURSIVE FreeMoveWindowLoop(_, _, _, _, _)
FreeMoveWindowLoop(d, source, chunk_size, overlap, st) ==
    LET text == d.page_content IN
    IF ~(st.start < Len(text)) THEN st
    ELSE LET end        == st.start + chunk_size
             chunk_text == Slice(text, st.start, end)
             seen       == Append(st.windows,
                                  [page |-> d.page, start |-> st.start, end |-> end])
         IN  IF Strip(chunk_text) = <<>>
             THEN [st EXCEPT !.windows = seen]          \* break
             ELSE FreeMoveWindowLoop(d, source, chunk_size, overlap,
                    [start   |-> end - overlap,
                     chunks  |-> Append(st.chunks,
                                   [page_content |-> Strip(chunk_text),
                                    metadata |-> [source |-> source, page |-> d.page,
                                                  domain |-> "free_movement_guidance"]]),
                     windows |-> seen])

\* "if len(chunk_text) > 100" of split_subsidiary_into_chunks.
MinSubsidiaryLen == 100

\* topic = f"Article {'/'.join(art_matches[:2]) if art_matches else 'general'}"
SubsidiaryTopic(chunk_text) ==
    LET art_matches == ARTICLE_RE_findall(chunk_text)
    IN  Chars("Article ") \o
          (IF art_matches # <<>>
           THEN Join(<<"/">>, SubSeq(art_matches, 1,
                                     IF Len(art_matches) < 2 THEN Len(art_matches) ELSE 2))
           ELSE Chars("general"))

\* split_subsidiary_into_chunks: the while loop over one page.
RECURSIVE SubsidiaryWindowLoop(_, _, _, _, _)
SubsidiaryWindowLoop(d, source, chunk_size, overlap, st) ==
    LET text == d.page_content IN
    IF ~(st.start < Len(text)) THEN st
    ELSE LET end        == st.start + chunk_size
             chunk_text == Strip(Slice(text, st.start, end))
             seen       == Append(st.windows,
                                  [page |-> d.page, start |-> st.start, end |-> end])
         IN  SubsidiaryWindowLoop(d, source, chunk_size, overlap,
                [start   |-> end - overlap,
                 chunks  |-> IF Len(chunk_text) > MinSubsidiaryLen
                             THEN Append(st.chunks,
                                    [page_content |-> chunk_text,
                                     metadata |-> [source |-> source, page |-> d.page,
                                                   domain |-> "subsidiary_protection",
                                                   topic  |-> SubsidiaryTopic(chunk_text)]])
                             ELSE st.chunks,
                 windows |-> seen])

\* "for d in raw_docs": every page starts its loop at start = 0.
RECURSIVE DEPages(_, _, _, _, _)
DEPages(raw_docs, source, chunk_size, overlap, st) ==
    IF raw_docs = <<>> THEN st
    ELSE DEPages(Tail(raw_docs), source, chunk_size, overlap,
                 DEWindowLoop(Head(raw_docs), source, chunk_size, overlap,
                              [st EXCEPT !.start = 0]))

RECURSIVE FreeMovePages(_, _, _, _, _)
FreeMovePages(raw_docs, source, chunk_size, overlap, st) ==
    IF raw_docs = <<>> THEN st
    ELSE FreeMovePages(Tail(raw_docs), source, chunk_size, overlap,
                 FreeMoveWindowLoop(Head(raw_docs), source, chunk_size, overlap,
                                    [st EXCEPT !.start = 0]))

RECURSIVE SubsidiaryPages(_, _, _, _, _)
SubsidiaryPages(raw_docs, source, chunk_size, overlap, st) ==
    IF raw_docs = <<>> THEN st
    ELSE SubsidiaryPages(Tail(raw_docs), source, chunk_size, overlap,
                 SubsidiaryWindowLoop(Head(raw_docs), source, chunk_size, overlap,
                                      [st EXCEPT !.start = 0]))

NoChunks == [start |-> 0, chunks |-> <<>>, windows |-> <<>>]

split_de_procedure_into_chunks(pdf_path, raw_docs, chunk_size, overlap) ==
    DEPages(raw_docs, basename(pdf_path), chunk_size, overlap, NoChunks)

split_subsidiary_into_chunks(pdf_path, raw_docs, chunk_size, overlap) ==
    SubsidiaryPages(raw_docs, basename(pdf_path), chunk_size, overlap, NoChunks)

split_free_move_into_chunks(pdf_path, raw_docs, chunk_size, overlap) ==
    FreeMovePages(raw_docs, basename(pdf_path), chunk_size, overlap, NoChunks)

(***************************************************************************)
(* Analysis of the fixed-window splitters: one call on a PDF of up to      *)
(* MaxPages pages, with a chunk size and an overlap below it.              *)
(***************************************************************************)
WindowPageSamples ==
    { Chars("ab cd ef gh"),
      Chars("ab       cd"),
      Chars("abcdefghij"),
      Chars(" \n"),
      Chars(" x\n"),
      Chars("") }

\* (chunk_size, overlap) of the calls analysed, overlap < chunk_size.
WindowParams == {<<3, 0>>, <<4, 0>>, <<4, 1>>, <<5, 2>>, <<4, 3>>, <<8, 6>>}

SubsidiaryPageSamples ==
    { Chars("Article 5 ") \o Rep("x", 100),
      Rep("y", 60) \o Chars("\nArticle 7 ") \o Rep("y", 60),
      Chars("Article 1 a\nArticle 2 b\nArticle 3 ") \o Rep("x", 80),
      Rep("z", 101),
      Rep("w", 100),
      Rep(" ", 40) \o Rep("v", 101) \o Rep(" ", 40),
      Chars("short") }

SubsidiaryParams == {<<104, 0>>, <<120, 20>>, <<150, 100>>}

InitWindows ==
    /\ \/ /\ pc \in {"split_de_procedure_into_chunks", "split_free_move_into_chunks"}
          /\ \E texts \in PdfsOf(WindowPageSamples, MaxPages), p \in WindowParams :
                args = [raw_docs |-> LoadPdf(texts), chunk_size |-> p[1], overlap |-> p[2]]
       \/ /\ pc = "split_subsidiary_into_chunks"
          /\ \E texts \in PdfsOf(SubsidiaryPageSamples, MaxPages), p \in SubsidiaryParams :
                args = [raw_docs |-> LoadPdf(texts), chunk_size |-> p[1], overlap |-> p[2]]
    /\ ret = <<>>
    /\ trace = <<>>
    /\ NoStore

SplitDEProcedureIntoChunks ==
    /\ pc = "split_de_procedure_into_chunks"
    /\ LET r == split_de_procedure_into_chunks("PDF_DE_PROC", args.raw_docs,
                                               args.chunk_size, args.overlap)
       IN  ret' = r.chunks /\ trace' = r.windows
    /\ pc' = "returned_de"
    /\ UNCHANGED args
    /\ UNCHANGED svars

SplitFreeMoveIntoChunks ==
    /\ pc = "split_free_move_into_chunks"
    /\ LET r == split_free_move_into_chunks("PDF_FREE_MOVE", args.raw_docs,
                                            args.chunk_size, args.overlap)
       IN  ret' = r.chunks /\ trace' = r.windows
    /\ pc' = "returned_fm"
    /\ UNCHANGED args
    /\ UNCHANGED svars

SplitSubsidiaryIntoChunks ==
    /\ pc = "split_subsidiary_into_chunks"
    /\ LET r == split_subsidiary_into_chunks("PDF_SUBSIDIARY", args.raw_docs,
                                             args.chunk_size, args.overlap)
       IN  ret' = r.chunks /\ trace' = r.windows
    /\ pc' = "returned_subs"
    /\ UNCHANGED args
    /\ UNCHANGED svars

NextWindows ==
    \/ SplitDEProcedureIntoChunks
    \/ SplitFreeMoveIntoChunks
    \/ SplitSubsidiaryIntoChunks

SpecWindows == InitWindows /\ [][NextWindows]_vars

WindowsReturned == pc \in {"returned_de", "returned_fm", "returned_subs"}

\* The windows the loop visited on page d, in order.
WindowsOf(d) == SelectSeq(trace, LAMBDA w : w.page = d.page)

\* The windows visited on page d cover [0, N) without a gap, and each ends
\* exactly `overlap` characters after the next one starts.
CoversPage(d) ==
    LET W == WindowsOf(d)
        N == Len(d.page_content)
    IN  /\ \A i \in 0..(N - 1) : \E k \in 1..Len(W) : W[k].start <= i /\ i < W[k].end
        /\ \A k \in 1..(Len(W) - 1) :
              /\ W[k + 1].start <= W[k].end
              /\ W[k].end - W[k + 1].start = args.overlap

\* C3 as stated: for each fixed-window splitter, with overlap < chunk size, the
\* windows generated for a page of length N cover [0, N) with no gap and consecutive
\* windows overlap by exactly the overlap.
C3_WindowsCoverPage ==
    WindowsReturned =>
        \A p \in 1..Len(args.raw_docs) : CoversPage(args.raw_docs[p])

\* The same for split_subsidiary_into_chunks alone, whose loop has no break.
SubsidiaryWindowsCoverPage ==
    pc = "returned_subs" =>
        \A p \in 1..Len(args.raw_docs) : CoversPage(args.raw_docs[p])

\* The sliding windows of a page: they start at the multiples of
\* chunk_size - overlap below the page length.
SlidingWindows(d) ==
    LET step == args.chunk_size - args.overlap
        N    == Len(d.page_content)
        n    == IF N = 0 THEN 0 ELSE ((N - 1) \div step) + 1
    IN  [k \in 1..n |-> Slice(d.page_content, (k - 1) * step,
                              (k - 1) * step + args.chunk_size)]

\* One unit [text, page] per window of the page that is not blank, in order.
UnitsOfPage(d) ==
    LET W    == SlidingWindows(d)
        full == SelectSeq(W, LAMBDA w : Strip(w) # <<>>)
    IN  [k \in 1..Len(full) |-> [text |-> Strip(full[k]), page |-> d.page]]

RECURSIVE UnitsOfPages(_)
UnitsOfPages(raw_docs) ==
    IF raw_docs = <<>> THEN <<>>
    ELSE UnitsOfPage(Head(raw_docs)) \o UnitsOfPages(Tail(raw_docs))

\* C4 as stated: in split_de_procedure_into_chunks and split_free_move_into_chunks,
\* every window of every page that is not blank after trimming yields exactly one
\* unit (its trimmed text, tagged with the page's number), a blank window yields
\* none, and no unit holds text of two pages.
C4_OneUnitPerNonBlankWindow ==
    pc \in {"returned_de", "returned_fm"} =>
        [k \in 1..Len(ret) |-> [text |-> ret[k].page_content,
                                page |-> ret[k].metadata.page]]
            = UnitsOfPages(args.raw_docs)

\* The article numbers a window mentions: the numbers of the "Article <N>" matches
\* at the start of its lines, in order.
Mentions(text) ==
    LET ls   == SplitLines(text)
        hits == SelectSeq(ls, LAMBDA l : ARTICLE_RE_match(l) # <<>>)
    IN  [k \in 1..Len(hits) |-> ARTICLE_RE_match(hits[k])]

\* C5 as stated: every chunk of split_subsidiary_into_chunks is longer than 100
\* characters, and its topic is "Article " followed by the first two article numbers
\* mentioned in the window joined by "/", or "general" when it mentions none.
C5_TopicNamesFirstTwoArticles ==
    pc = "returned_subs" =>
        \A k \in 1..Len(ret) :
            LET text == ret[k].page_content
                nums == Mentions(text)
            IN  /\ Len(Strip(text)) > 100
                /\ ret[k].metadata.topic =
                      IF nums = <<>> THEN Chars("general")
                      ELSE Chars("Article ") \o
                             Join(<<"/">>, SubSeq(nums, 1, IF Len(nums) < 2 THEN 1 ELSE 2))

(***************************************************************************)
(* The keyword classifiers.  A label is a str, as a sequence of characters.*)
(***************************************************************************)
classify_de_topic_appeal_first(text) ==
    LET lower == Lower(text)
        has(kw) == Contains(lower, Chars(kw))
    IN  IF has("safe countries of origin") THEN Chars("safe_countries")
        ELSE IF has("procedure management") \/ has("quality assurance")
        THEN Chars("procedure_management")
        ELSE IF has("appeal") \/ has("remedy") THEN Chars("appeal")
        ELSE IF has("interview") \/ has("hearing") THEN Chars("interview")
        ELSE IF has("accommodation") \/ has("financial support")
        THEN Chars("reception_benefits")
        ELSE IF has("registration") \/ has("arrival") THEN Chars("first_steps")
        ELSE Chars("general")

classify_de_topic(text) ==
    LET lower == Lower(text)
        has(kw) == Contains(lower, Chars(kw))
    IN  IF has("safe countries of origin") THEN Chars("safe_countries")
        ELSE IF has("procedure management") \/ has("quality assurance")
        THEN Chars("procedure_management")
        ELSE IF has("interview") \/ has("hearing") THEN Chars("interview")
        ELSE IF has("appeal") \/ has("remedy") THEN Chars("appeal")
        ELSE IF has("accommodation") \/ has("financial support")
        THEN Chars("reception_benefits")
        ELSE IF has("registration") \/ has("arrival") THEN Chars("first_steps")
        ELSE Chars("general")

classify_free_move_topic(text) ==
    LET lower == Lower(text)
        has(kw) == Contains(lower, Chars(kw))
    IN  IF has("frontier worker") \/ has("cross-border") THEN Chars("workers_cross_border")
        ELSE IF has("dual national") \/ has("dual eu") THEN Chars("dual_nationals")
        ELSE IF has("family member") THEN Chars("family_members")
        ELSE IF has("article 27") \/ has("public policy")
        THEN Chars("restrictions_public_policy")
        ELSE IF has("residence card") THEN Chars("residence_documents")
        ELSE Chars("general")

(***************************************************************************)
(* Analysis of the classifiers: one call on a text of up to MaxPhrases     *)
(* phrases separated by blanks.                                            *)
(***************************************************************************)
MaxPhrases == 2

DEPhrases ==
    { "safe countries of origin", "procedure management", "Quality Assurance",
      "interview", "HEARING", "appeal", "remedy", "accommodation",
      "financial support", "registration", "Arrival", "unaccompanied minor",
      "inter view" }

FreeMovePhrases ==
    { "frontier worker", "Cross-Border", "dual national", "dual EU", "family member",
      "Article 27", "public policy", "residence card", "EU citizen", "family  member" }

PhraseTexts(phrases, n) ==
    { Join(<<" ">>, [i \in 1..Len(ps) |-> Chars(ps[i])]) :
        ps \in UNION {[1..k -> phrases] : k \in 0..n} }

ExampleDEText == Chars("unaccompanied minor interview appeal")

InitClassify ==
    /\ \/ /\ pc = "classify_de_topic"
          /\ args \in PhraseTexts(DEPhrases, MaxPhrases) \cup {ExampleDEText}
       \/ /\ pc = "classify_free_move_topic"
          /\ args \in PhraseTexts(FreeMovePhrases, MaxPhrases)
    /\ ret = <<>>
    /\ trace = <<>>
    /\ NoStore

ClassifyDETopic ==
    /\ pc = "classify_de_topic"
    /\ ret' = classify_de_topic(args)
    /\ pc' = "returned_classify_de"
    /\ UNCHANGED <<args, trace>>
    /\ UNCHANGED svars

ClassifyFreeMoveTopic ==
    /\ pc = "classify_free_move_topic"
    /\ ret' = classify_free_move_topic(args)
    /\ pc' = "returned_classify_fm"
    /\ UNCHANGED <<args, trace>>
    /\ UNCHANGED svars

NextClassify == ClassifyDETopic \/ ClassifyFreeMoveTopic

SpecClassify == InitClassify /\ [][NextClassify]_vars

\* The rules of each vocabulary in priority order: a label and its keywords.
DERules ==
    << [label |-> "safe_countries",       keywords |-> {"safe countries of origin"}],
       [label |-> "procedure_management", keywords |-> {"procedure management",
                                                        "quality assurance"}],
       [label |-> "interview",            keywords |-> {"interview", "hearing"}],
       [label |-> "appeal",               keywords |-> {"appeal", "remedy"}],
       [label |-> "reception_benefits",   keywords |-> {"accommodation",
                                                        "financial support"}],
       [label |-> "first_steps",          keywords |-> {"registration", "arrival"}] >>

FreeMoveRules ==
    << [label |-> "workers_cross_border",       keywords |-> {"frontier worker",
                                                              "cross-border"}],
       [label |-> "dual_nationals",             keywords |-> {"dual national", "dual eu"}],
       [label |-> "family_members",             keywords |-> {"family member"}],
       [label |-> "restrictions_public_policy", keywords |-> {"article 27",
                                                              "public policy"}],
       [label |-> "residence_documents",        keywords |-> {"residence card"}] >>

\* The label of the first rule a keyword of which occurs in the lowercased text.
FirstRuleLabel(rules, text) ==
    LET hits == {i \in 1..Len(rules) :
                    \E kw \in rules[i].keywords : Contains(Lower(text), Chars(kw))}
    IN  IF hits = {} THEN Chars("general") ELSE Chars(rules[SetMin(hits)].label)

Vocabulary(rules) == {Chars(rules[i].label) : i \in 1..Len(rules)} \cup {Chars("general")}

\* C6: each classifier returns exactly one label of its own vocabulary: that of the
\* first rule in priority order with a keyword in the lowercased text, "general"
\* when there is none; "unaccompanied minor interview appeal" is "interview".
C6_FirstMatchingRuleWins ==
    /\ pc = "returned_classify_de" =>
          /\ ret \in Vocabulary(DERules)
          /\ ret = FirstRuleLabel(DERules, args)
          /\ (args = ExampleDEText => ret = Chars("interview"))
    /\ pc = "returned_classify_fm" =>
          /\ ret \in Vocabulary(FreeMoveRules)
          /\ ret = FirstRuleLabel(FreeMoveRules, args)

\* C6: the German-procedure classifier has returned on a text holding keywords of
\* two rules, the later rule's keyword first in the text.
C6_Witness ==
    /\ pc = "returned_classify_de"
    /\ Contains(Lower(args), Chars("appeal interview"))
    /\ ret = Chars("interview")

(***************************************************************************)
(* Cypher, as far as ingest.py uses it.                                    *)
(***************************************************************************)
\* The smallest internal identity not in use.
FreshId(used) == SetMin((0..Cardinality(used)) \ used)

\* MATCH that finds no node.
NodesWithNothing(g, label, key) == {}

\* MATCH (n:label {key}): the nodes of the label that hold the key's properties.
NodesWith(g, label, key) ==
    {n \in g.nodes : /\ n.label = label
                     /\ \A k \in DOMAIN key : k \in DOMAIN n.props /\ n.props[k] = key[k]}

\* CREATE (n:label {key})
CreateNode(g, label, key) ==
    [g EXCEPT !.nodes = @ \cup {[nid   |-> FreshId({n.nid : n \in g.nodes}),
                                 label |-> label,
                                 props |-> key]}]

\* MERGE taken for CREATE: a node is created even when one matches.
MergeNodeAsCreate(g, label, key) == CreateNode(g, label, key)

\* MERGE (n:label {key}): the node is created only when no node matches.
MergeNode(g, label, key) ==
    IF NodesWith(g, label, key) # {} THEN g ELSE CreateNode(g, label, key)

\* SET that leaves alone the attributes the node already has.
SetPropsKeepingExisting(g, label, key, props) ==
    LET hit == NodesWith(g, label, key)
    IN  [g EXCEPT !.nodes = {IF n \in hit THEN [n EXCEPT !.props = @ @@ props] ELSE n :
                               n \in g.nodes}]

\* SET n.k = v, ... on every node matched by (n:label {key}).
SetProps(g, label, key, props) ==
    LET hit == NodesWith(g, label, key)
    IN  [g EXCEPT !.nodes = {IF n \in hit THEN [n EXCEPT !.props = props @@ @] ELSE n :
                               n \in g.nodes}]

\* CREATE (from)-[:type]->(to)
CreateRel(g, from, type, to) ==
    [g EXCEPT !.rels = @ \cup {[rid  |-> FreshId({r.rid : r \in g.rels}),
                                from |-> from, type |-> type, to |-> to]}]

\* MERGE taken for CREATE: a relationship is created even when one is present.
MergeRelAsCreate(g, from, type, to) == CreateRel(g, from, type, to)

\* MERGE (from)-[:type]->(to): the relationship is created only when absent.
MergeRel(g, from, type, to) ==
    IF \E r \in g.rels : r.from = from /\ r.type = type /\ r.to = to
    THEN g
    ELSE CreateRel(g, from, type, to)

\* MERGE (r)-[:type]->(a) for every row (r, a) of the query.
RECURSIVE MergeRels(_, _, _)
MergeRels(g, rows, type) ==
    IF rows = {} THEN g
    ELSE LET row == CHOOSE row \in rows : TRUE
         IN  MergeRels(MergeRel(g, row[1], type, row[2]), rows \ {row}, type)

\* MATCH (n:label) DETACH DELETE n
DetachDelete(g, label) ==
    LET gone == {n.nid : n \in NodesWith(g, label, <<>>)}
    IN  [g EXCEPT !.nodes = {n \in @ : n.nid \notin gone},
                  !.rels  = {r \in @ : r.from \notin gone /\ r.to \notin gone}]

\* The unit upsert with the regulation matched first: nothing is written when the
\* regulation is missing.
UpsertUnitIfRegulation(g, label, id, props, regulation_id, rel_type) ==
    IF NodesWith(g, "Regulation", [id |-> regulation_id]) = {} THEN g
    ELSE LET g1 == SetProps(MergeNode(g, label, [id |-> id]), label, [id |-> id], props)
         IN  MergeRels(g1,
                       {n.nid : n \in NodesWith(g1, "Regulation", [id |-> regulation_id])}
                          \X {n.nid : n \in NodesWith(g1, label, [id |-> id])},
                       rel_type)

\* The unit upsert that also stamps the regulation with the unit it was given.
UpsertUnitStampingRegulation(g, label, id, props, regulation_id, rel_type) ==
    LET g1   == MergeNode(g, label, [id |-> id])
        g2   == SetProps(g1, label, [id |-> id], props)
        g3   == SetProps(g2, "Regulation", [id |-> regulation_id], [last_unit |-> id])
        a    == {n.nid : n \in NodesWith(g3, label, [id |-> id])}
        r    == {n.nid : n \in NodesWith(g3, "Regulation", [id |-> regulation_id])}
    IN  MergeRels(g3, r \X a, rel_type)

\* MERGE (a:label {id: $id}) SET a.<k> = <v>, ... WITH a
\* MATCH (r:Regulation {id: regulation_id}) MERGE (r)-[:rel_type]->(a)
UpsertUnit(g, label, id, props, regulation_id, rel_type) ==
    LET g1   == MergeNode(g, label, [id |-> id])
        g2   == SetProps(g1, label, [id |-> id], props)
        a    == {n.nid : n \in NodesWith(g2, label, [id |-> id])}
        r    == {n.nid : n \in NodesWith(g2, "Regulation", [id |-> regulation_id])}
    IN  MergeRels(g2, r \X a, rel_type)

(***************************************************************************)
(* Configuration of ingest.py.                                             *)
(***************************************************************************)
VALID_FROM_SUBSIDIARY   == "2024-05-22"
VALID_FROM_FREE_MOVE    == "2023-12-22"
VALID_FROM_REFUGEE_CONV == "1954-04-22"
VALID_FROM_DUBLIN       == "2013-06-19"
VALID_FROM_CHARTER      == "2009-12-01"
VALID_FROM_DE_PROC      == "2020-01-01"
JURISDICTION            == "EU"

(***************************************************************************)
(* Identifiers and embeddings.                                             *)
(***************************************************************************)
\* hashlib.sha256(content.encode()).hexdigest()[:16].  The digest is idealised as
\* collision-free: it is a tagged copy of the content it was computed from.
sha256_hex16(content) == [sha256_16 |-> content]

\* embeddings.embed_query(text): the external model, a function of the text.
embed_query(text) == <<"embedding of">> \o text

\* get_embedding: the vector and the texts sent to the embedding service.
get_embedding(text) ==
    IF text = <<>> \/ Strip(text) = <<>>
    THEN [vector |-> <<>>, calls |-> {}]
    ELSE [vector |-> embed_query(text), calls |-> {text}]

\* dict.get(key) and dict.get(key, default)
Get(md, key) == IF key \in DOMAIN md THEN md[key] ELSE None
GetOr(md, key, default) == IF key \in DOMAIN md THEN md[key] ELSE default

\* node_id of the three topic-tagged ingest functions, and a variant from the text
\* alone.
TopicNodeIdTextOnly(text, topic) == sha256_hex16(text)

TopicNodeId(text, topic) == sha256_hex16(text \o topic)

\* article_id of the three article ingest functions.
ArticleId(page_content) == sha256_hex16(page_content)

(***************************************************************************)
(* The body of each "for doc in documents" loop: the database after the    *)
(* iteration, the upsert sent and the texts embedded.                      *)
(***************************************************************************)
Skipped(g) == [graph |-> g, sent |-> <<>>, calls |-> {}]

Upserted(g, label, id, props, regulation_id, rel_type, calls) ==
    [graph |-> UpsertUnit(g, label, id, props, regulation_id, rel_type),
     sent  |-> <<[label |-> label, id |-> id, props |-> props]>>,
     calls |-> calls]

ingest_articles(g, doc) ==
    LET article_num == Get(doc.metadata, "article_number") IN
    IF article_num = None THEN Skipped(g)
    ELSE LET e == get_embedding(doc.page_content)
         IN  Upserted(g, "Article", ArticleId(doc.page_content),
                      [source         |-> Get(doc.metadata, "source"),
                       page           |-> Get(doc.metadata, "page"),
                       valid_from     |-> VALID_FROM_DUBLIN,
                       jurisdiction   |-> JURISDICTION,
                       article_number |-> article_num,
                       text           |-> doc.page_content,
                       embedding      |-> e.vector],
                      "EU_604_2013", "HAS_ARTICLE", e.calls)

ingest_charter_articles(g, doc) ==
    LET art_num == Get(doc.metadata, "charter_article_number") IN
    IF art_num = None THEN Skipped(g)
    ELSE LET e == get_embedding(doc.page_content)
         IN  Upserted(g, "CharterArticle", ArticleId(doc.page_content),
                      [source                 |-> Get(doc.metadata, "source"),
                       page                   |-> Get(doc.metadata, "page"),
                       valid_from             |-> VALID_FROM_CHARTER,
                       jurisdiction           |-> JURISDICTION,
                       charter_article_number |-> art_num,
                       text                   |-> doc.page_content,
                       embedding              |-> e.vector],
                      "EU_CHARTER_2000", "HAS_CHARTER_ARTICLE", e.calls)

ingest_de_procedure(g, doc) ==
    LET text  == doc.page_content
        topic == classify_de_topic(text)
        e     == get_embedding(text)
    IN  Upserted(g, "DEProcedure", TopicNodeId(text, topic),
                 [source       |-> Get(doc.metadata, "source"),
                  page         |-> Get(doc.metadata, "page"),
                  valid_from   |-> VALID_FROM_DE_PROC,
                  jurisdiction |-> "DE",
                  domain       |-> "de_procedure",
                  topic        |-> topic,
                  text         |-> text,
                  embedding    |-> e.vector],
                 "DE_ASYLUM_STAGES", "HAS_SECTION", e.calls)

ingest_subsidiary_chunks(g, doc) ==
    LET text  == doc.page_content
        topic == GetOr(doc.metadata, "topic", Chars("general"))
        e     == get_embedding(text)
    IN  Upserted(g, "SubsidiarySection", TopicNodeId(text, topic),
                 [source       |-> Get(doc.metadata, "source"),
                  page         |-> Get(doc.metadata, "page"),
                  valid_from   |-> VALID_FROM_SUBSIDIARY,
                  jurisdiction |-> JURISDICTION,
                  domain       |-> "subsidiary_protection",
                  topic        |-> topic,
                  text         |-> text,
                  embedding    |-> e.vector],
                 "EU_2024_1347", "HAS_SECTION", e.calls)

ingest_free_movement_guidance(g, doc) ==
    LET text  == doc.page_content
        topic == classify_free_move_topic(text)
        e     == get_embedding(text)
    IN  Upserted(g, "FreeMovementSection", TopicNodeId(text, topic),
                 [source       |-> Get(doc.metadata, "source"),
                  page         |-> Get(doc.metadata, "page"),
                  valid_from   |-> VALID_FROM_FREE_MOVE,
                  jurisdiction |-> "EU",
                  domain       |-> "free_movement_guidance",
                  topic        |-> topic,
                  text         |-> text,
                  embedding    |-> e.vector],
                 "EU_FREE_MOVE_GUIDE_2023", "HAS_SECTION", e.calls)

ingest_geneva_articles(g, doc) ==
    LET art_num == Get(doc.metadata, "geneva_article_number") IN
    IF art_num = None THEN Skipped(g)
    ELSE LET e == get_embedding(doc.page_content)
         IN  Upserted(g, "GenevaArticle", ArticleId(doc.page_content),
                      [source         |-> Get(doc.metadata, "source"),
                       page           |-> Get(doc.metadata, "page"),
                       valid_from     |-> VALID_FROM_REFUGEE_CONV,
                       jurisdiction   |-> "INTL",
                       article_number |-> art_num,
                       text           |-> doc.page_content,
                       embedding      |-> e.vector],
                      "UN_GENEVA_1951", "HAS_ARTICLE", e.calls)

IngestFunctions ==
    {"ingest_articles", "ingest_charter_articles", "ingest_de_procedure",
     "ingest_subsidiary_chunks", "ingest_free_movement_guidance",
     "ingest_geneva_articles"}

\* One iteration of the loop of ingest function fn.
IngestIteration(fn, body) ==
    /\ pc = fn
    /\ doc_idx <= Len(documents)
    /\ graph' = body.graph
    /\ queries' = queries \o body.sent
    /\ embedded' = embedded \cup body.calls
    /\ doc_idx' = doc_idx + 1
    /\ trace' = Append(trace, fn)
    /\ UNCHANGED <<pc, args, ret, files, pdfs, documents, after, runs, snapshot>>

IngestArticlesStep ==
    /\ pc = "ingest_articles" /\ doc_idx <= Len(documents)
    /\ IngestIteration("ingest_articles", ingest_articles(graph, documents[doc_idx]))

IngestCharterArticlesStep ==
    /\ pc = "ingest_charter_articles" /\ doc_idx <= Len(documents)
    /\ IngestIteration("ingest_charter_articles",
                       ingest_charter_articles(graph, documents[doc_idx]))

IngestDEProcedureStep ==
    /\ pc = "ingest_de_procedure" /\ doc_idx <= Len(documents)
    /\ IngestIteration("ingest_de_procedure",
                       ingest_de_procedure(graph, documents[doc_idx]))

IngestSubsidiaryChunksStep ==
    /\ pc = "ingest_subsidiary_chunks" /\ doc_idx <= Len(documents)
    /\ IngestIteration("ingest_subsidiary_chunks",
                       ingest_subsidiary_chunks(graph, documents[doc_idx]))

IngestFreeMovementGuidanceStep ==
    /\ pc = "ingest_free_movement_guidance" /\ doc_idx <= Len(documents)
    /\ IngestIteration("ingest_free_movement_guidance",
                       ingest_free_movement_guidance(graph, documents[doc_idx]))

IngestGenevaArticlesStep ==
    /\ pc = "ingest_geneva_articles" /\ doc_idx <= Len(documents)
    /\ IngestIteration("ingest_geneva_articles",
                       ingest_geneva_articles(graph, documents[doc_idx]))

\* The loop of an ingest function is exhausted: the function returns to its caller.
IngestReturn ==
    /\ pc \in IngestFunctions
    /\ doc_idx > Len(documents)
    /\ pc' = after
    /\ UNCHANGED <<args, ret, trace>>
    /\ UNCHANGED svars

(***************************************************************************)
(* init_graph and create_core_legal_structure.                             *)
(***************************************************************************)
UnitLabels ==
    {"Article", "CharterArticle", "DEProcedure", "SubsidiarySection",
     "FreeMovementSection", "GenevaArticle"}

\* init_graph with the subsidiary units deleted under a label no node carries.
init_graph_other_subsidiary_label(g) ==
    LET g1 == DetachDelete(g, "Regulation")
        g2 == DetachDelete(g1, "Article")
        g3 == DetachDelete(g2, "CharterArticle")
        g4 == DetachDelete(g3, "DEProcedure")
        g5 == DetachDelete(g4, "Country")
        g6 == DetachDelete(g5, "SubsidiaryChunk")
        g7 == DetachDelete(g6, "FreeMovementSection")
    IN  DetachDelete(g7, "GenevaArticle")

\* The eight DETACH DELETE queries, then the eight uniqueness constraints.
\* "MATCH (r:Regulation)-[*0..3]-()" has the zero-length path, so it matches every
\* Regulation node.
init_graph(g) ==
    LET g1 == DetachDelete(g, "Regulation")
        g2 == DetachDelete(g1, "Article")
        g3 == DetachDelete(g2, "CharterArticle")
        g4 == DetachDelete(g3, "DEProcedure")
        g5 == DetachDelete(g4, "Country")
        g6 == DetachDelete(g5, "SubsidiarySection")
        g7 == DetachDelete(g6, "FreeMovementSection")
        g8 == DetachDelete(g7, "GenevaArticle")
    IN  [g8 EXCEPT !.constraints =
            @ \cup {<<"Regulation", "id">>, <<"Article", "id">>,
                    <<"CharterArticle", "id">>, <<"DEProcedure", "id">>,
                    <<"Country", "code">>, <<"SubsidiarySection", "id">>,
                    <<"FreeMovementSection", "id">>, <<"GenevaArticle", "id">>}]

\* MERGE (r:Regulation {id: ...}) SET r.name = ..., ...
MergeRegulation(g, id, props) ==
    SetProps(MergeNode(g, "Regulation", [id |-> id]), "Regulation", [id |-> id], props)

eu_states ==
    <<"AT", "BE", "BG", "HR", "CY", "CZ", "DK", "EE", "FI",
      "FR", "DE", "GR", "HU", "IE", "IT", "LV", "LT", "LU",
      "MT", "NL", "PL", "PT", "RO", "SK", "SI", "ES", "SE">>

\* The j-th smallest internal identity not in use (j = 1 is FreshId).
NthFreshId(used, j) ==
    CHOOSE n \in 0..(Cardinality(used) + j) :
        n \notin used /\ Cardinality((0..n) \ used) = j

\* "for code in eu_states: MERGE (:Country {code: $code, ...})": the loop creates,
\* in the order of eu_states, a node for every state that has none.
MergeCountries(g) ==
    LET key(k)  == [code                 |-> eu_states[k],
                    jurisdiction         |-> "EU",
                    is_dublin_applicable |-> TRUE]
        missing == {k \in 1..Len(eu_states) : NodesWith(g, "Country", key(k)) = {}}
        used    == {n.nid : n \in g.nodes}
    IN  [g EXCEPT !.nodes =
            @ \cup {[nid   |-> NthFreshId(used, Cardinality({m \in missing : m <= k})),
                     label |-> "Country",
                     props |-> key(k)] : k \in missing}]

create_core_legal_structure(g) ==
    LET g1 == MergeRegulation(g, "EU_604_2013",
                  [name         |-> "Dublin III Regulation",
                   valid_from   |-> VALID_FROM_DUBLIN,
                   jurisdiction |-> JURISDICTION])
        g2 == MergeRegulation(g1, "EU_CHARTER_2000",
                  [name         |-> "Charter of Fundamental Rights of the European Union",
                   valid_from   |-> VALID_FROM_CHARTER,
                   jurisdiction |-> JURISDICTION])
        g3 == MergeRegulation(g2, "DE_ASYLUM_STAGES",
                  [name         |-> "Stages of the German Asylum Procedure",
                   valid_from   |-> VALID_FROM_DE_PROC,
                   jurisdiction |-> "DE"])
        g4 == MergeRegulation(g3, "EU_2024_1347",
                  [name         |-> "Regulation (EU) 2024/1347 on qualification and subsidiary protection",
                   valid_from   |-> VALID_FROM_SUBSIDIARY,
                   jurisdiction |-> "EU"])
        g5 == MergeRegulation(g4, "EU_FREE_MOVE_GUIDE_2023",
                  [name         |-> "Guidance on the right of free movement of EU citizens and their families",
                   valid_from   |-> VALID_FROM_FREE_MOVE,
                   jurisdiction |-> "EU",
                   is_guidance  |-> TRUE])
        g6 == MergeRegulation(g5, "UN_GENEVA_1951",
                  [name         |-> "1951 Refugee Convention and 1967 Protocol",
                   valid_from   |-> VALID_FROM_REFUGEE_CONV,
                   jurisdiction |-> "INTL"])
    IN  MergeCountries(g6)

(***************************************************************************)
(* Analysis of the persistence steps: one ingest_* function is called      *)
(* twice in a row on the same list of up to MaxDocs units, on a store      *)
(* where create_core_legal_structure has or has not run.                   *)
(***************************************************************************)
Document(text, metadata) == [page_content |-> Chars(text), metadata |-> metadata]

\* The metadata key an article ingest function reads the number from.
NumberKey(fn) ==
    CASE fn = "ingest_articles"         -> "article_number"
      [] fn = "ingest_charter_articles" -> "charter_article_number"
      [] fn = "ingest_geneva_articles"  -> "geneva_article_number"

ArticleUnitSamples(fn) ==
    { Document("Article 1\nFoo.", (NumberKey(fn) :> 1) @@ [source |-> "a.pdf", page |-> 0]),
      Document("Article 1\nFoo.", (NumberKey(fn) :> 7) @@ [source |-> "b.pdf", page |-> 3]),
      Document("Article 2\nBar.", (NumberKey(fn) :> 2) @@ [source |-> "a.pdf", page |-> 0]),
      Document("Article 3\nBaz.", [source |-> "a.pdf", page |-> 1]),
      Document(" ",               (NumberKey(fn) :> 4) @@ [source |-> "a.pdf", page |-> 1]) }

ChunkUnitSamples(domain) ==
    { Document("the interview", [source |-> "a.pdf", page |-> 0, domain |-> domain]),
      Document("the interview", [source |-> "b.pdf", page |-> 2, domain |-> domain]),
      Document("appeal; family member", [source |-> "a.pdf", page |-> 0, domain |-> domain]),
      Document("nothing", [source |-> "a.pdf", page |-> 1, domain |-> domain]),
      Document("", [source |-> "a.pdf", page |-> 1, domain |-> domain]) }

SubsidiaryUnitSamples ==
    { Document("ab", [source |-> "a.pdf", page |-> 0, topic |-> Chars("c")]),
      Document("ab", [source |-> "b.pdf", page |-> 2, topic |-> Chars("c")]),
      Document("ab", [source |-> "a.pdf", page |-> 0, topic |-> Chars("d")]),
      Document("a",  [source |-> "a.pdf", page |-> 0, topic |-> Chars("bc")]),
      Document("ab", [source |-> "a.pdf", page |-> 1]) }

UnitSamples(fn) ==
    CASE fn \in {"ingest_articles", "ingest_charter_articles", "ingest_geneva_articles"}
            -> ArticleUnitSamples(fn)
      [] fn = "ingest_de_procedure"           -> ChunkUnitSamples("de_procedure")
      [] fn = "ingest_free_movement_guidance" -> ChunkUnitSamples("free_movement_guidance")
      [] fn = "ingest_subsidiary_chunks"      -> SubsidiaryUnitSamples

UnitLists(fn) == UNION {[1..n -> UnitSamples(fn)] : n \in 0..MaxDocs}

InitIngest ==
    /\ pc = "store"
    /\ \E fn \in IngestFunctions :
         \E units \in UnitLists(fn) : args = [fn |-> fn, documents |-> units]
    /\ ret = <<>>
    /\ trace = <<>>
    /\ NoStore

\* The store the calls run on: the regulations are seeded ...
SeededStore ==
    /\ pc = "store"
    /\ graph' = create_core_legal_structure(graph)
    /\ pc' = "call"
    /\ UNCHANGED <<args, ret, trace, files, pdfs, documents, doc_idx, after, runs,
                   embedded, queries, snapshot>>

\* ... or they are not.
UnseededStore ==
    /\ pc = "store"
    /\ pc' = "call"
    /\ UNCHANGED <<args, ret, trace>>
    /\ UNCHANGED svars

\* ingest_*(graph, documents)
CallIngest ==
    /\ pc = "call"
    /\ pc' = args.fn
    /\ documents' = args.documents
    /\ doc_idx' = 1
    /\ after' = "call_again"
    /\ UNCHANGED <<args, ret, trace, graph, files, pdfs, runs, embedded, queries, snapshot>>

\* The same call once more; the store after the first call is remembered.
CallIngestAgain ==
    /\ pc = "call_again"
    /\ snapshot' = graph
    /\ pc' = args.fn
    /\ doc_idx' = 1
    /\ after' = "called_twice"
    /\ UNCHANGED <<args, ret, trace, graph, files, pdfs, documents, runs, embedded, queries>>

NextIngest ==
    \/ SeededStore
    \/ UnseededStore
    \/ CallIngest
    \/ CallIngestAgain
    \/ IngestArticlesStep
    \/ IngestCharterArticlesStep
    \/ IngestDEProcedureStep
    \/ IngestSubsidiaryChunksStep
    \/ IngestFreeMovementGuidanceStep
    \/ IngestGenevaArticlesStep
    \/ IngestReturn

SpecIngest == InitIngest /\ [][NextIngest]_vars

\* The unit types by identifier scheme, and the upserts sent so far.
ArticleLabels == {"Article", "CharterArticle", "GenevaArticle"}
TopicLabels   == {"DEProcedure", "SubsidiarySection", "FreeMovementSection"}
Sent          == {queries[k] : k \in 1..Len(queries)}

\* The canonical content of a unit as the specification defines it.
CanonicalContent(q) ==
    IF q.label \in ArticleLabels THEN q.props.text ELSE q.props.text \o q.props.topic

\* The nodes a unit was persisted as.
NodesOf(q) == {n \in graph.nodes : n.label = q.label /\ n.props.id = q.id}

\* The number of an article-style unit, whichever key holds it.
NumberOf(q) ==
    IF "article_number" \in DOMAIN q.props THEN q.props.article_number
    ELSE q.props.charter_article_number

\* C7: the identifier a unit is persisted under depends on its canonical content
\* only (the text for article-style units, the text followed by the topic label
\* for topic-tagged units): units with equal canonical content get the same
\* identifier whatever their page, source or article number, and topic-tagged
\* units with the same text and different topic labels get different identifiers.
C7_IdentifierFromCanonicalContent ==
    \A p \in Sent : \A q \in Sent :
        /\ NodesOf(p) # {}
        /\ CanonicalContent(p) = CanonicalContent(q) => p.id = q.id
        /\ (/\ p.label \in TopicLabels
            /\ q.label \in TopicLabels
            /\ p.props.text = q.props.text
            /\ p.props.topic # q.props.topic) => p.id # q.id

\* Two article units with the same text, from different pages and sources and with
\* different numbers, were persisted under one identifier.
C7_Witness ==
    \E p \in Sent : \E q \in Sent :
        /\ p.label = "Article" /\ q.label = "Article"
        /\ p.props.text = q.props.text
        /\ p.props.page # q.props.page
        /\ p.props.source # q.props.source
        /\ NumberOf(p) # NumberOf(q)
        /\ p.id = q.id
        /\ Cardinality(NodesOf(p)) = 1

\* C8: after an ingest function has run twice in a row on the same list of
\* units, the store holds the same nodes, attributes and relationships as after
\* the first run.
C8_SecondRunChangesNothing ==
    pc = "called_twice" =>
        /\ graph = snapshot
        /\ Cardinality(graph.nodes) = Cardinality(snapshot.nodes)
        /\ Cardinality(graph.rels) = Cardinality(snapshot.rels)

\* Both runs persisted two different units and linked them to their regulation.
C8_Witness ==
    /\ pc = "called_twice"
    /\ Len(queries) = 4
    /\ Cardinality({n \in graph.nodes : n.label \in UnitLabels}) = 2
    /\ Cardinality(graph.rels) = 2

\* The regulation that owns the units of a type.
OwningRegulation(label) ==
    CASE label = "Article"             -> "EU_604_2013"
      [] label = "CharterArticle"      -> "EU_CHARTER_2000"
      [] label = "DEProcedure"         -> "DE_ASYLUM_STAGES"
      [] label = "SubsidiarySection"   -> "EU_2024_1347"
      [] label = "FreeMovementSection" -> "EU_FREE_MOVE_GUIDE_2023"
      [] label = "GenevaArticle"       -> "UN_GENEVA_1951"

NoRegulationFor(q) ==
    NodesWith(graph, "Regulation", [id |-> OwningRegulation(q.label)]) = {}

\* C10: a unit persisted while the regulation that owns it does not exist is
\* stored as a node carrying every attribute of the upsert and no relationship,
\* and the store holds no Regulation node afterwards.
C10_OrphanUnitWithoutRegulation ==
    \A k \in 1..Len(queries) :
        LET q == queries[k] IN
        NoRegulationFor(q) =>
            /\ Cardinality(NodesOf(q)) = 1
            /\ \A n \in NodesOf(q) :
                 /\ DOMAIN n.props = DOMAIN q.props \cup {"id"}
                 /\ k = Len(queries) => n.props = [id |-> q.id] @@ q.props
                 /\ \A r \in graph.rels : r.to # n.nid /\ r.from # n.nid
            /\ \A n \in graph.nodes : n.label # "Regulation"

\* A subsidiary unit with an embedding was persisted on a store without
\* regulations and is an orphan.
C10_Witness ==
    /\ pc = "ingest_subsidiary_chunks"
    /\ Len(queries) >= 1
    /\ NoRegulationFor(queries[Len(queries)])
    /\ \E n \in NodesOf(queries[Len(queries)]) :
         /\ n.props.embedding # <<>>
         /\ n.props.topic = Chars("general")
    /\ graph.rels = {}

(***************************************************************************)
(* ingest_all and create_indexes, as the script runs them (the __main__    *)
(* block), on six PDFs and a store that is empty or holds earlier data.    *)
(***************************************************************************)
PdfPaths ==
    <<"PDF_DUBLIN", "PDF_CHARTER", "PDF_DE_PROC", "PDF_SUBSIDIARY", "PDF_FREE_MOVE",
      "PDF_REFUGEE_CONV">>

\* Default chunk_size and overlap of the three window splitters.
DE_CHUNK_SIZE         == 800
DE_OVERLAP            == 150
SUBSIDIARY_CHUNK_SIZE == 1200
SUBSIDIARY_OVERLAP    == 200
FREE_MOVE_CHUNK_SIZE  == 1200
FREE_MOVE_OVERLAP     == 200

\* The configs dict of create_indexes: index name and label.
IndexConfigs ==
    {<<"dublin_articles_index", "Article">>,
     <<"charter_index", "CharterArticle">>,
     <<"de_procedure_index", "DEProcedure">>,
     <<"subsidiary_index", "SubsidiarySection">>,
     <<"free_movement_index", "FreeMovementSection">>,
     <<"geneva_index", "GenevaArticle">>}

\* create_indexes preceded by a purge of the units that have no vector.
create_indexes_purging_unembedded(g) ==
    LET gone == {n.nid : n \in {m \in g.nodes : /\ "embedding" \in DOMAIN m.props
                                                 /\ m.props.embedding = <<>>}}
    IN  [g EXCEPT !.nodes   = {n \in @ : n.nid \notin gone},
                  !.rels    = {r \in @ : r.from \notin gone /\ r.to \notin gone},
                  !.indexes = @ \cup IndexConfigs]

\* CREATE VECTOR INDEX idx IF NOT EXISTS FOR (n:label) ON (n.embedding), for each
\* entry of configs: nothing is done when an index of that name, or a vector
\* index on that label's embedding, exists.
create_indexes(g) ==
    [g EXCEPT !.indexes =
        @ \cup {c \in IndexConfigs :
                  \A idx \in g.indexes : idx[1] # c[1] /\ idx[2] # c[2]}]

\* The page texts of the PDFs the runs are made on.
PdfSamples ==
    [PDF_DUBLIN       |-> { <<Chars("Article 1\nFoo.\nArticle 2\nBar.")>>,
                            <<Chars("Article 1\nFoo."),
                              Chars("Article 1\nFoo.\nArticle 3\nBaz.")>> },
     PDF_CHARTER      |-> { <<Chars("Article 1\nDignity.")>>,
                            <<Chars("Preamble"), Chars("ARTICLE 2 Life\ntext")>> },
     PDF_DE_PROC      |-> { <<Chars("the interview")>>,
                            <<Chars("appeal"), Chars("the interview")>> },
     PDF_SUBSIDIARY   |-> { <<Chars("Article 5 ") \o Rep("x", 100)>>,
                            <<Rep("y", 101), Rep("y", 101)>> },
     PDF_FREE_MOVE    |-> { <<Chars("family member rights")>>,
                            <<Chars("workers"), Chars("   ")>> },
     PDF_REFUGEE_CONV |-> { <<Chars("Article 1\nFoo.")>>,
                            <<Chars("Article 33\nNon-refoulement.\nArticle 2\nDuties."),
                              Chars("Article 33\nExceptions.")>> }]

\* A store left by an earlier, different ingestion: a regulation with a unit that
\* hangs on it twice, an orphan unit and a country.
StaleGraph ==
    [nodes |-> {[nid |-> 0, label |-> "Regulation", props |-> [id |-> "EU_604_2013"]],
                [nid |-> 1, label |-> "Article",
                 props |-> [id |-> sha256_hex16(Chars("old")), text |-> Chars("old")]],
                [nid |-> 2, label |-> "GenevaArticle",
                 props |-> [id |-> sha256_hex16(Chars("Article 1\nFoo.")),
                            text |-> Chars("Article 1\nFoo.")]],
                [nid |-> 3, label |-> "Country",
                 props |-> [code |-> "UK", jurisdiction |-> "EU",
                            is_dublin_applicable |-> TRUE]]},
     rels  |-> {[rid |-> 0, from |-> 0, type |-> "HAS_ARTICLE", to |-> 1],
                [rid |-> 1, from |-> 0, type |-> "HAS_SECTION", to |-> 1]},
     constraints |-> {},
     indexes     |-> {}]

\* A store that also holds a node the pipeline knows nothing about, tied to a unit,
\* a regulation and a country.
ForeignGraph ==
    [nodes |-> {[nid |-> 0, label |-> "Note", props |-> [id |-> "n1"]],
                [nid |-> 1, label |-> "Regulation", props |-> [id |-> "OLD_REG"]],
                [nid |-> 2, label |-> "SubsidiarySection",
                 props |-> [id |-> sha256_hex16(Chars("old")), text |-> Chars("old")]],
                [nid |-> 3, label |-> "Country", props |-> [code |-> "AT"]]},
     rels  |-> {[rid |-> 0, from |-> 0, type |-> "CITES", to |-> 2],
                [rid |-> 1, from |-> 1, type |-> "HAS_SECTION", to |-> 2],
                [rid |-> 2, from |-> 3, type |-> "SIGNED", to |-> 1],
                [rid |-> 3, from |-> 0, type |-> "ABOUT", to |-> 3]},
     constraints |-> {},
     indexes     |-> {<<"subsidiary_index", "SubsidiarySection">>}]

InitPipeline ==
    /\ pc = "ingest_all"
    /\ args = <<>>
    /\ ret = <<>>
    /\ trace = <<>>
    /\ graph \in {EmptyGraph, StaleGraph, ForeignGraph}
    /\ pdfs \in [PDF_DUBLIN       : PdfSamples.PDF_DUBLIN,
                 PDF_CHARTER      : PdfSamples.PDF_CHARTER,
                 PDF_DE_PROC      : PdfSamples.PDF_DE_PROC,
                 PDF_SUBSIDIARY   : PdfSamples.PDF_SUBSIDIARY,
                 PDF_FREE_MOVE    : PdfSamples.PDF_FREE_MOVE,
                 PDF_REFUGEE_CONV : PdfSamples.PDF_REFUGEE_CONV]
    /\ \E gone \in SUBSET {PdfPaths[k] : k \in 1..Len(PdfPaths)} :
         /\ Cardinality(gone) <= 1
         /\ files = {PdfPaths[k] : k \in 1..Len(PdfPaths)} \ gone
    /\ documents = <<>>
    /\ doc_idx = 0
    /\ after = ""
    /\ runs = 0
    /\ embedded = {}
    /\ queries = <<>>
    /\ snapshot = EmptyGraph

\* "if not os.path.exists(p): raise FileNotFoundError", for the first missing path.
MissingPdf(g) ==
    /\ pc = "ingest_all"
    /\ \E k \in 1..Len(PdfPaths) :
         /\ PdfPaths[k] \notin files
         /\ \A j \in 1..(k - 1) : PdfPaths[j] \in files
         /\ ret' = PdfPaths[k]
    /\ pc' = "FileNotFoundError"
    /\ trace' = <<"file_checks">>
    /\ queries' = <<>>
    /\ embedded' = {}
    /\ snapshot' = graph
    /\ graph' = g
    /\ UNCHANGED <<args, files, pdfs, documents, doc_idx, after, runs>>

\* The file checks made after the reset.
IngestAllMissingPdfAfterReset == MissingPdf(init_graph(graph))

IngestAllMissingPdf == MissingPdf(graph)

\* All six files exist: the run starts.
IngestAllStart ==
    /\ pc = "ingest_all"
    /\ \A k \in 1..Len(PdfPaths) : PdfPaths[k] \in files
    /\ pc' = "init_graph"
    /\ trace' = <<"file_checks">>
    /\ queries' = <<>>
    /\ embedded' = {}
    /\ snapshot' = graph
    /\ UNCHANGED <<args, ret, graph, files, pdfs, documents, doc_idx, after, runs>>

\* A stage of ingest_all that only writes the store.
StoreStage(name, g, next) ==
    /\ pc = name
    /\ graph' = g
    /\ trace' = Append(trace, name)
    /\ pc' = next
    /\ UNCHANGED <<args, ret, files, pdfs, documents, doc_idx, after, runs, embedded,
                   queries, snapshot>>

\* The reset followed at once by the first source, the seeding left out.
InitGraphThenDublin == StoreStage("init_graph", init_graph(graph), "split_dublin")

InitGraph == StoreStage("init_graph", init_graph(graph), "create_core_legal_structure")

CreateCoreLegalStructure ==
    StoreStage("create_core_legal_structure", create_core_legal_structure(graph),
               "split_dublin")

\* A split of ingest_all followed by the call of the ingest function on its result.
SplitStage(name, docs, fn, next) ==
    /\ pc = name
    /\ documents' = docs
    /\ doc_idx' = 1
    /\ trace' = Append(trace, name)
    /\ pc' = fn
    /\ after' = next
    /\ UNCHANGED <<args, ret, graph, files, pdfs, runs, embedded, queries, snapshot>>

SplitDublin ==
    SplitStage("split_dublin",
               split_pdf_into_articles("PDF_DUBLIN", LoadPdf(pdfs.PDF_DUBLIN), FALSE, ""),
               "ingest_articles", "split_charter")

SplitCharter ==
    SplitStage("split_charter",
               split_pdf_into_articles("PDF_CHARTER", LoadPdf(pdfs.PDF_CHARTER), TRUE, ""),
               "ingest_charter_articles", "split_de_procedure")

SplitDEProcedure ==
    SplitStage("split_de_procedure",
               split_de_procedure_into_chunks("PDF_DE_PROC", LoadPdf(pdfs.PDF_DE_PROC),
                                              DE_CHUNK_SIZE, DE_OVERLAP).chunks,
               "ingest_de_procedure", "split_subsidiary")

SplitSubsidiary ==
    SplitStage("split_subsidiary",
               split_subsidiary_into_chunks("PDF_SUBSIDIARY", LoadPdf(pdfs.PDF_SUBSIDIARY),
                                            SUBSIDIARY_CHUNK_SIZE,
                                            SUBSIDIARY_OVERLAP).chunks,
               "ingest_subsidiary_chunks", "split_free_move")

SplitFreeMove ==
    SplitStage("split_free_move",
               split_free_move_into_chunks("PDF_FREE_MOVE", LoadPdf(pdfs.PDF_FREE_MOVE),
                                           FREE_MOVE_CHUNK_SIZE, FREE_MOVE_OVERLAP).chunks,
               "ingest_free_movement_guidance", "split_geneva")

SplitGeneva ==
    SplitStage("split_geneva",
               split_geneva_into_articles("PDF_REFUGEE_CONV",
                                          LoadPdf(pdfs.PDF_REFUGEE_CONV)),
               "ingest_geneva_articles", "create_indexes")

\* The loop body of ingest function fn.
IngestBody(fn, g, doc) ==
    CASE fn = "ingest_articles"               -> ingest_articles(g, doc)
      [] fn = "ingest_charter_articles"       -> ingest_charter_articles(g, doc)
      [] fn = "ingest_de_procedure"           -> ingest_de_procedure(g, doc)
      [] fn = "ingest_subsidiary_chunks"      -> ingest_subsidiary_chunks(g, doc)
      [] fn = "ingest_free_movement_guidance" -> ingest_free_movement_guidance(g, doc)
      [] fn = "ingest_geneva_articles"        -> ingest_geneva_articles(g, doc)

SplitStages ==
    {"split_dublin", "split_charter", "split_de_procedure", "split_subsidiary",
     "split_free_move", "split_geneva"}

\* An exception leaves ingest_all and ends the script: nothing catches it.  call
\* names the call that raised, args' the step it was made in; g and calls are the
\* store and the embedding calls at that moment.
Raises(call, g, calls) ==
    /\ pc' = "Exception"
    /\ ret' = call
    /\ args' = pc
    /\ graph' = g
    /\ embedded' = embedded \cup calls
    /\ UNCHANGED <<trace, files, pdfs, documents, doc_idx, after, runs, queries, snapshot>>

\* A split raises (PyPDFLoader cannot read the file).
SegmentationRaises ==
    /\ pc \in SplitStages
    /\ Raises("split", graph, {})

\* embeddings.embed_query raising after the unit at hand was upserted.
EmbeddingRaisesAfterUpsert ==
    /\ pc \in IngestFunctions
    /\ doc_idx <= Len(documents)
    /\ IngestBody(pc, graph, documents[doc_idx]).calls # {}
    /\ Raises("embed_query", IngestBody(pc, graph, documents[doc_idx]).graph,
              IngestBody(pc, graph, documents[doc_idx]).calls)

\* embeddings.embed_query raises for the unit at hand.
EmbeddingRaises ==
    /\ pc \in IngestFunctions
    /\ doc_idx <= Len(documents)
    /\ IngestBody(pc, graph, documents[doc_idx]).calls # {}
    /\ Raises("embed_query", graph, IngestBody(pc, graph, documents[doc_idx]).calls)

\* The failure of a store write undoing the units of the source at hand.
StoreWriteRaisesRollingBack ==
    /\ pc \in IngestFunctions
    /\ doc_idx <= Len(documents)
    /\ IngestBody(pc, graph, documents[doc_idx]).sent # <<>>
    /\ Raises("graph.query",
              DetachDelete(graph, IngestBody(pc, graph, documents[doc_idx]).sent[1].label),
              IngestBody(pc, graph, documents[doc_idx]).calls)

\* graph.query raises for the upsert of the unit at hand, after its embedding was
\* computed; the statement has no effect.
StoreWriteRaises ==
    /\ pc \in IngestFunctions
    /\ doc_idx <= Len(documents)
    /\ IngestBody(pc, graph, documents[doc_idx]).sent # <<>>
    /\ Raises("graph.query", graph, IngestBody(pc, graph, documents[doc_idx]).calls)

\* create_indexes(), which ends the script.
CreateIndexes ==
    /\ pc = "create_indexes"
    /\ graph' = create_indexes(graph)
    /\ trace' = Append(trace, "create_indexes")
    /\ runs' = runs + 1
    /\ pc' = "done"
    /\ UNCHANGED <<args, ret, files, pdfs, documents, doc_idx, after, embedded, queries,
                   snapshot>>

\* The script is run again on the same files.
RunAgain ==
    /\ pc = "done"
    /\ runs < MaxRuns
    /\ pc' = "ingest_all"
    /\ UNCHANGED <<args, ret, trace>>
    /\ UNCHANGED svars

(***************************************************************************)
(* retriever.py: the direct article lookups, made on the store a run left. *)
(***************************************************************************)
\* What a lookup returns: None, or the joined text.
NotFound == [none |-> TRUE]

Found(text) == [text |-> text]

\* The rows of "MATCH (n:label {key: $num}) RETURN n.text AS text ORDER BY n.page"
\* in each order the database may return them: ascending page, rows of one page in
\* any order.
OrderedByPage(rows) ==
    {order \in [1..Cardinality(rows) -> rows] :
        /\ \A j \in 1..Cardinality(rows) : \A k \in 1..Cardinality(rows) :
             j < k => order[j] # order[k] /\ order[j].props.page <= order[k].props.page}

\* "if t: texts.append(t)"
Truthy(t) == t # <<>>

\* The body shared by the four lookups: the results it can return.
fetch_text(rows) ==
    {LET texts == SelectSeq([j \in 1..Len(order) |-> order[j].props.text], Truthy)
     IN  IF texts = <<>> THEN NotFound ELSE Found(Join(<<"\n", "\n">>, texts)) :
        order \in OrderedByPage(rows)}

fetch_article_text(g, article_number) ==
    fetch_text(NodesWith(g, "Article", [article_number |-> article_number]))

fetch_charter_article_text(g, article_number) ==
    fetch_text(NodesWith(g, "CharterArticle", [charter_article_number |-> article_number]))

fetch_subsidiary_article_text(g, article_number) ==
    fetch_text(NodesWith(g, "SubsidiaryArticle", [article_number |-> article_number]))

fetch_geneva_article_text(g, article_number) ==
    fetch_text(NodesWith(g, "GenevaArticle", [article_number |-> article_number]))

\* The article numbers looked up.
ArticleNumbers == {1, 2, 5, 33}

\* A lookup of family for an article number on the store of the finished run.
Fetch(family, results) ==
    /\ pc = "done"
    /\ \E article_number \in ArticleNumbers :
         /\ args' = [family |-> family, article_number |-> article_number]
         /\ ret' \in results[article_number]
    /\ pc' = "fetched"
    /\ UNCHANGED trace
    /\ UNCHANGED svars

FetchArticleText ==
    Fetch("Dublin", [n \in ArticleNumbers |-> fetch_article_text(graph, n)])

FetchCharterArticleText ==
    Fetch("Charter", [n \in ArticleNumbers |-> fetch_charter_article_text(graph, n)])

FetchSubsidiaryArticleText ==
    Fetch("Subsidiary", [n \in ArticleNumbers |-> fetch_subsidiary_article_text(graph, n)])

FetchGenevaArticleText ==
    Fetch("Geneva", [n \in ArticleNumbers |-> fetch_geneva_article_text(graph, n)])

NextPipeline ==
    \/ IngestAllMissingPdf
    \/ IngestAllStart
    \/ InitGraph
    \/ CreateCoreLegalStructure
    \/ SplitDublin
    \/ SplitCharter
    \/ SplitDEProcedure
    \/ SplitSubsidiary
    \/ SplitFreeMove
    \/ SplitGeneva
    \/ IngestArticlesStep
    \/ IngestCharterArticlesStep
    \/ IngestDEProcedureStep
    \/ IngestSubsidiaryChunksStep
    \/ IngestFreeMovementGuidanceStep
    \/ IngestGenevaArticlesStep
    \/ IngestReturn
    \/ SegmentationRaises
    \/ EmbeddingRaises
    \/ StoreWriteRaises
    \/ CreateIndexes
    \/ RunAgain
    \/ FetchArticleText
    \/ FetchCharterArticleText
    \/ FetchSubsidiaryArticleText
    \/ FetchGenevaArticleText

SpecPipeline == InitPipeline /\ [][NextPipeline]_vars

\* The kind of has-unit relationship of a unit type.
HasUnitKind(label) ==
    CASE label \in {"Article", "GenevaArticle"} -> "HAS_ARTICLE"
      [] label = "CharterArticle" -> "HAS_CHARTER_ARTICLE"
      [] label \in TopicLabels -> "HAS_SECTION"

\* The run is past create_core_legal_structure.
Seeded ==
    pc \notin {"ingest_all", "FileNotFoundError", "init_graph",
               "create_core_legal_structure"}

UnitNodes == {n \in graph.nodes : n.label \in UnitLabels}

\* C9: once create_core_legal_structure has run, during and after the six ingest
\* steps every unit node has exactly one incoming relationship; it comes from the
\* one Regulation node that owns the unit's type and is of the kind fixed for the
\* type, also for a unit that was ingested more than once.
C9_OneRegulationPerUnit ==
    Seeded =>
        \A n \in UnitNodes :
            LET incoming == {r \in graph.rels : r.to = n.nid} IN
            /\ Cardinality(incoming) = 1
            /\ \A r \in incoming :
                 /\ r.type = HasUnitKind(n.label)
                 /\ \E m \in graph.nodes :
                      /\ m.nid = r.from
                      /\ m.label = "Regulation"
                      /\ m.props.id = OwningRegulation(n.label)
            /\ Cardinality(NodesWith(graph, "Regulation",
                                     [id |-> OwningRegulation(n.label)])) = 1

\* The run has finished on a stale store; the main regulation's second page
\* repeated a unit, which was ingested twice and has one edge, and all six types
\* have units.
C9_Witness ==
    /\ pc = "done"
    /\ snapshot = StaleGraph
    /\ \E p \in 1..Len(queries) : \E q \in 1..Len(queries) :
         p < q /\ queries[p].label = "Article" /\ queries[p].id = queries[q].id
    /\ \A label \in UnitLabels : \E n \in UnitNodes : n.label = label

\* The labels init_graph resets.
ResetLabels == UnitLabels \cup {"Regulation", "Country"}

\* The nodes of g that a relationship of g starts from or ends at.
Endpoints(g) == {r.from : r \in g.rels} \cup {r.to : r \in g.rels}

\* C11: when init_graph has returned, whatever the store held before, it holds no
\* node of the six unit types, no Regulation node, no Country node and no
\* relationship that touches such a node or a node that no longer exists; nothing
\* has been seeded or persisted yet.
C11_ResetLeavesNoUnitsOrReferences ==
    pc = "create_core_legal_structure" =>
        /\ \A n \in graph.nodes : n.label \notin ResetLabels
        /\ Endpoints(graph) \subseteq {n.nid : n \in graph.nodes}
        /\ \A n \in snapshot.nodes :
             n.label \in ResetLabels => n.nid \notin Endpoints(graph)
        /\ queries = <<>>
        /\ embedded = {}
        /\ trace = <<"file_checks", "init_graph">>

\* init_graph has returned in a second run: the store it reset held units of all six
\* types with their regulations and countries, and is now empty.
C11_Witness ==
    /\ pc = "create_core_legal_structure"
    /\ runs = 1
    /\ \A label \in ResetLabels : \E n \in snapshot.nodes : n.label = label
    /\ Cardinality(snapshot.rels) >= 6
    /\ graph.nodes = {}
    /\ graph.rels = {}

\* init_graph has returned on a store with a foreign node: the node is kept, its
\* relationships to units, regulations and countries are gone.
ForeignNodeSurvivesReset ==
    /\ pc = "create_core_legal_structure"
    /\ snapshot = ForeignGraph
    /\ graph.nodes = {[nid |-> 0, label |-> "Note", props |-> [id |-> "n1"]]}
    /\ graph.rels = {}

\* What a store holds, leaving internal identities aside: the nodes of a label,
\* their attribute values, and the relationships between attribute-identified nodes.
NodesOfLabel(g, label) == {n \in g.nodes : n.label = label}

Contents(g, label) == {n.props : n \in NodesOfLabel(g, label)}

NodeOf(g, nid) == CHOOSE n \in g.nodes : n.nid = nid

RelContents(g) ==
    {[from |-> [label |-> NodeOf(g, r.from).label, props |-> NodeOf(g, r.from).props],
      type |-> r.type,
      to   |-> [label |-> NodeOf(g, r.to).label, props |-> NodeOf(g, r.to).props]] :
        r \in g.rels}

\* A run after the first has ended; snapshot is the store the previous run left.
LaterRunDone == pc = "done" /\ runs >= 2

\* C12: when the whole script has run again on the same PDFs, the store holds as
\* many unit nodes of each of the six types as after the previous run, the same
\* Regulation and Country nodes and the same relationships.
C12_SecondFullRunSameStore ==
    LaterRunDone =>
        /\ \A label \in UnitLabels :
             Cardinality(NodesOfLabel(graph, label))
                = Cardinality(NodesOfLabel(snapshot, label))
        /\ \A label \in {"Regulation", "Country"} :
             /\ Contents(graph, label) = Contents(snapshot, label)
             /\ Cardinality(NodesOfLabel(graph, label))
                  = Cardinality(NodesOfLabel(snapshot, label))
        /\ RelContents(graph) = RelContents(snapshot)
        /\ Cardinality(graph.rels) = Cardinality(snapshot.rels)

\* The second run has ended; both runs persisted units of all six types, the main
\* regulation's three emitted units (one repeated) as two nodes.
C12_Witness ==
    /\ pc = "done"
    /\ runs = 2
    /\ \A label \in UnitLabels : NodesOfLabel(graph, label) # {}
    /\ Cardinality({k \in 1..Len(queries) : queries[k].label = "Article"}) = 3
    /\ Cardinality(NodesOfLabel(graph, "Article")) = 2
    /\ Cardinality(NodesOfLabel(graph, "Regulation")) = 6
    /\ Cardinality(NodesOfLabel(graph, "Country")) = 27

\* The order of the steps of a run; trace holds the steps taken so far in the run,
\* an ingest function once for every unit it has handled.
StepOrder ==
    <<"file_checks", "init_graph", "create_core_legal_structure",
      "split_dublin", "ingest_articles",
      "split_charter", "ingest_charter_articles",
      "split_de_procedure", "ingest_de_procedure",
      "split_subsidiary", "ingest_subsidiary_chunks",
      "split_free_move", "ingest_free_movement_guidance",
      "split_geneva", "ingest_geneva_articles",
      "create_indexes">>

Position(step) == CHOOSE k \in 1..Len(StepOrder) : StepOrder[k] = step

\* C13: the steps of a run are taken in the order file checks, reset, seeding, then
\* for each of the six sources in turn its segmentation followed by the
\* persistence of its units, then index building: a step is never followed by an
\* earlier one, only the persistence of a unit repeats, and each step is preceded
\* by the file checks, the reset, the seeding and the segmentation of every earlier
\* source.  When the seeding is over all Regulation and Country nodes exist, so
\* every unit persisted has its owning Regulation node.
C13_StepsInOrder ==
    /\ \A j \in 1..Len(trace) :
         /\ trace[j] \in {StepOrder[k] : k \in 1..Len(StepOrder)}
         /\ \A k \in 1..(j - 1) :
              \/ Position(trace[k]) < Position(trace[j])
              \/ trace[k] = trace[j] /\ trace[j] \in IngestFunctions
         /\ \A k \in 1..(Position(trace[j]) - 1) :
              StepOrder[k] \notin IngestFunctions =>
                  \E h \in 1..(j - 1) : trace[h] = StepOrder[k]
    /\ Seeded =>
         /\ Cardinality(NodesOfLabel(graph, "Regulation")) = 6
         /\ Cardinality(NodesOfLabel(graph, "Country")) = Len(eu_states)
    /\ \A q \in Sent : ~NoRegulationFor(q)
    /\ pc \in IngestFunctions /\ doc_idx > 1 => trace[Len(trace)] = pc

\* Index building has been done at the end of a run that persisted units of every
\* source, two of them for the main regulation.
C13_Witness ==
    /\ pc = "done"
    /\ trace[Len(trace)] = "create_indexes"
    /\ \A fn \in IngestFunctions : \E j \in 1..Len(trace) : trace[j] = fn
    /\ Cardinality({j \in 1..Len(trace) : trace[j] = "ingest_articles"}) >= 2

\* C14: a run started with one of the six PDFs missing ends in the missing-file
\* error with the store as it was when the run started; nothing was segmented,
\* embedded or persisted and no index was created.
C14_MissingPdfAbortsBeforeAnyWork ==
    pc = "FileNotFoundError" =>
        /\ graph = snapshot
        /\ ret \notin files
        /\ trace = <<"file_checks">>
        /\ documents = <<>>
        /\ queries = <<>>
        /\ embedded = {}

\* The run was aborted for the missing subsidiary PDF on a store with earlier data,
\* which is still there.
C14_Witness ==
    /\ pc = "FileNotFoundError"
    /\ ret = "PDF_SUBSIDIARY"
    /\ graph = StaleGraph

\* The upsert at position k of the run is the last one for its unit.
LastUpsert(k) ==
    \A j \in (k + 1)..Len(queries) :
        queries[j].label # queries[k].label \/ queries[j].id # queries[k].id

\* C15: when a split, an embedding call or a store write has raised, every unit
\* upserted earlier in the run, for the earlier sources and for the source at
\* hand, is still in the store with the attributes of its last upsert and with
\* its relationship from its regulation, and the store holds no other unit.
C15_FailureKeepsCommittedUnits ==
    pc = "Exception" =>
        /\ \A k \in 1..Len(queries) :
             /\ Cardinality(NodesOf(queries[k])) = 1
             /\ \A n \in NodesOf(queries[k]) :
                  /\ LastUpsert(k) => n.props = [id |-> queries[k].id] @@ queries[k].props
                  /\ \E r \in graph.rels :
                       /\ r.to = n.nid
                       /\ r.type = HasUnitKind(n.label)
                       /\ NodeOf(graph, r.from).label = "Regulation"
                       /\ NodeOf(graph, r.from).props.id = OwningRegulation(n.label)
        /\ \A n \in UnitNodes : \E q \in Sent : n \in NodesOf(q)
        /\ Cardinality(NodesOfLabel(graph, "Regulation")) = 6

\* The store write for the second unit of the German procedure has raised; the
\* units of the two sources before it and its first unit are in the store.
C15_Witness ==
    /\ pc = "Exception"
    /\ ret = "graph.query"
    /\ after = "split_subsidiary"
    /\ doc_idx = 2
    /\ \A label \in {"Article", "CharterArticle", "DEProcedure"} :
         NodesOfLabel(graph, label) # {}
    /\ NodesOfLabel(graph, "SubsidiarySection") = {}

\* A text that is empty or consists of whitespace.
Blank(text) == Strip(text) = <<>>

BlankUnitsNeverEmbedded == \A text \in embedded : ~Blank(text)

\* The embedding service has raised for the unit at hand.
EmbeddingFailed == pc = "Exception" /\ ret = "embed_query"

\* The upsert the failed unit would have had.
FailedUpsert == IngestBody(args, graph, documents[doc_idx]).sent[1]

\* C17: an error of the embedding service ends the run with the error: the step
\* it was raised in is the last step of the run, no index is built, and the store
\* holds exactly the units upserted before, so nothing was written for the unit
\* whose embedding failed.
C17_EmbeddingErrorPropagates ==
    EmbeddingFailed =>
        /\ args \in IngestFunctions
        /\ \A j \in 1..Len(trace) : Position(trace[j]) <= Position(args)
        /\ graph.indexes = snapshot.indexes
        /\ \A n \in UnitNodes : \E q \in Sent : n \in NodesOf(q)
        /\ (\A q \in Sent : q.label # FailedUpsert.label \/ q.id # FailedUpsert.id)
              => NodesOf(FailedUpsert) = {}
        /\ Cardinality(graph.rels) = Cardinality({<<q.label, q.id>> : q \in Sent})

\* The embedding of the second unit of the main regulation has failed: the first
\* unit is in the store, the second is not.
C17_Witness ==
    /\ EmbeddingFailed
    /\ args = "ingest_articles"
    /\ doc_idx = 2
    /\ Cardinality(NodesOfLabel(graph, "Article")) = 1
    /\ NodesOf(FailedUpsert) = {}
    /\ documents[doc_idx].page_content \in embedded

\* The article number a subsidiary unit is about: the one its topic label names.
SubsidiaryNumber(n) ==
    IF ARTICLE_RE_match(n.props.topic) = <<>> THEN None
    ELSE ToInt(ARTICLE_RE_match(n.props.topic))

\* The persisted units of a family with article number num.
FamilyUnits(family, num) ==
    CASE family = "Dublin" ->
           {n \in NodesOfLabel(graph, "Article") : n.props.article_number = num}
      [] family = "Charter" ->
           {n \in NodesOfLabel(graph, "CharterArticle") :
               n.props.charter_article_number = num}
      [] family = "Subsidiary" ->
           {n \in NodesOfLabel(graph, "SubsidiarySection") : SubsidiaryNumber(n) = num}
      [] family = "Geneva" ->
           {n \in NodesOfLabel(graph, "GenevaArticle") : n.props.article_number = num}

\* The texts of units, joined in an ascending page order.
JoinedByPage(units) ==
    {Found(Join(<<"\n", "\n">>, [j \in 1..Len(order) |-> order[j].props.text])) :
        order \in OrderedByPage(units)}

\* The lookups of the families other than Subsidiary.
FetchedOutsideSubsidiary == pc = "fetched" /\ args.family # "Subsidiary"

\* C18: a lookup of a family for an article number returns None exactly when the
\* family has no persisted unit with that number, and otherwise the texts of all
\* its units with that number joined in ascending page order.
C18_LookupReturnsUnitsByPage ==
    pc = "fetched" =>
        LET units == FamilyUnits(args.family, args.article_number) IN
        /\ ret = NotFound <=> units = {}
        /\ units # {} => ret \in JoinedByPage(units)

\* The part of C18 that the code meets: the lookups of the other three families.
LookupReturnsUnitsByPageOutsideSubsidiary ==
    FetchedOutsideSubsidiary =>
        LET units == FamilyUnits(args.family, args.article_number) IN
        /\ ret = NotFound <=> units = {}
        /\ units # {} => ret \in JoinedByPage(units)

\* The Geneva lookup has returned the two units of Article 33 from pages 0 and 1.
LookupJoinsTwoPages ==
    /\ pc = "fetched"
    /\ args = [family |-> "Geneva", article_number |-> 33]
    /\ Cardinality(FamilyUnits("Geneva", 33)) = 2
    /\ ret # NotFound

\* The reference nodes of the store, with their identities and attributes.
ReferenceNodes == NodesOfLabel(graph, "Regulation") \cup NodesOfLabel(graph, "Country")

RegulationIds ==
    {"EU_604_2013", "EU_CHARTER_2000", "DE_ASYLUM_STAGES", "EU_2024_1347",
     "EU_FREE_MOVE_GUIDE_2023", "UN_GENEVA_1951"}

\* C19: from the end of create_core_legal_structure until the next run starts, the
\* store holds the six Regulation nodes and the Country nodes that were seeded, and
\* no step (persistence of a unit, index building, a failure, a lookup) creates,
\* deletes or changes any of them.
C19_ReferenceNodesFrozen ==
    /\ [](Seeded =>
            /\ {n.props.id : n \in NodesOfLabel(graph, "Regulation")} = RegulationIds
            /\ Cardinality(NodesOfLabel(graph, "Regulation")) = 6
            /\ {n.props.code : n \in NodesOfLabel(graph, "Country")}
                  = {eu_states[k] : k \in 1..Len(eu_states)}
            /\ Cardinality(NodesOfLabel(graph, "Country")) = Len(eu_states))
    /\ [][Seeded /\ pc' # "ingest_all" => ReferenceNodes' = ReferenceNodes]_vars

\* The six sources have been persisted and the indexes built; the reference nodes
\* are the ones the seeding made from the reset store.
C19_Witness ==
    /\ pc = "done"
    /\ \A label \in UnitLabels : NodesOfLabel(graph, label) # {}
    /\ Cardinality(graph.indexes) = 6
    /\ ReferenceNodes =
         {n \in create_core_legal_structure(init_graph(snapshot)).nodes :
             n.label \in {"Regulation", "Country"}}

(***************************************************************************)
(* Analysis of create_indexes: an ingest function is called on a list of   *)
(* up to MaxDocs units (none: no ingestion) on a store that is empty or    *)
(* holds earlier data, then create_indexes is called up to MaxRuns times.  *)
(* snapshot is the store before the first call of create_indexes.          *)
(***************************************************************************)
InitIndexes ==
    /\ pc = "store"
    /\ \E fn \in IngestFunctions :
         \E units \in UnitLists(fn) : args = [fn |-> fn, documents |-> units]
    /\ ret = <<>>
    /\ trace = <<>>
    /\ graph \in {EmptyGraph, StaleGraph, ForeignGraph}
    /\ files = {}
    /\ pdfs = <<>>
    /\ documents = <<>>
    /\ doc_idx = 0
    /\ after = ""
    /\ runs = 0
    /\ embedded = {}
    /\ queries = <<>>
    /\ snapshot = EmptyGraph

\* ingest_*(graph, documents), to be followed by create_indexes().
CallIngestBeforeIndexes ==
    /\ pc = "call"
    /\ pc' = args.fn
    /\ documents' = args.documents
    /\ doc_idx' = 1
    /\ after' = "call_create_indexes"
    /\ UNCHANGED <<args, ret, trace, graph, files, pdfs, runs, embedded, queries, snapshot>>

\* create_indexes() is called for the first time.
CallCreateIndexes ==
    /\ pc = "call_create_indexes"
    /\ snapshot' = graph
    /\ pc' = "create_indexes"
    /\ UNCHANGED <<args, ret, trace, graph, files, pdfs, documents, doc_idx, after, runs,
                   embedded, queries>>

\* create_indexes() is called again.
CallCreateIndexesAgain ==
    /\ pc = "done"
    /\ runs < MaxRuns
    /\ pc' = "create_indexes"
    /\ UNCHANGED <<args, ret, trace>>
    /\ UNCHANGED svars

NextIndexes ==
    \/ SeededStore
    \/ UnseededStore
    \/ CallIngestBeforeIndexes
    \/ IngestArticlesStep
    \/ IngestCharterArticlesStep
    \/ IngestDEProcedureStep
    \/ IngestSubsidiaryChunksStep
    \/ IngestFreeMovementGuidanceStep
    \/ IngestGenevaArticlesStep
    \/ IngestReturn
    \/ CallCreateIndexes
    \/ CreateIndexes
    \/ CallCreateIndexesAgain

SpecIndexes == InitIndexes /\ [][NextIndexes]_vars

\* C20: after any number of calls of create_indexes, on a store with or without
\* ingested units, every unit type has exactly one vector index and there are six
\* in all, the indexes that existed are kept, the nodes and relationships are
\* those of the store before the first call, and the store is the one a single
\* call makes of that store.
C20_IndexesCreatedOnceNodesUntouched ==
    pc = "done" =>
        /\ \A label \in UnitLabels :
             Cardinality({idx \in graph.indexes : idx[2] = label}) = 1
        /\ Cardinality(graph.indexes) = 6
        /\ snapshot.indexes \subseteq graph.indexes
        /\ graph.nodes = snapshot.nodes
        /\ graph.rels = snapshot.rels
        /\ graph.constraints = snapshot.constraints
        /\ graph = create_indexes(snapshot)

\* create_indexes has run twice on a store without indexes where ingestion had
\* persisted a unit with an empty vector and a unit with a vector.
C20_Witness ==
    /\ pc = "done"
    /\ runs = 2
    /\ snapshot.indexes = {}
    /\ \E n \in UnitNodes : "embedding" \in DOMAIN n.props /\ n.props.embedding = <<>>
    /\ \E n \in UnitNodes : "embedding" \in DOMAIN n.props /\ n.props.embedding # <<>>
    /\ graph.indexes = IndexConfigs

\* create_indexes has run twice with no ingestion before it, on a store that had
\* one of the six indexes.
IndexesWithoutIngestion ==
    /\ pc = "done"
    /\ runs = 2
    /\ queries = <<>>
    /\ snapshot = ForeignGraph
    /\ Cardinality(graph.indexes) = 6

\* The offset in the text s at which its k-th line starts (0-based, as Python
\* counts characters).
LineOffset(s, k) ==
    LET B      == LineBoundaryStarts(s)
        nth(j) == CHOOSE t \in B : Cardinality({u \in B : u < t}) = j - 1
    IN  IF k = 1 THEN 0 ELSE AfterBoundary(s, nth(k - 1)) - 1

\* The page that contains offset: the last page starting at or before it.
PageAt(raw_docs, offset) ==
    LET offs == page_offsets(raw_docs)
    IN  offs[SetMax({i \in 1..Len(offs) : offs[i].off <= offset})].page

\* The text of the call under analysis has a two-character line separator.
HasCRLF ==
    \E i \in 1..(Len(all_text(args.raw_docs)) - 1) :
        all_text(args.raw_docs)[i] = "\r" /\ all_text(args.raw_docs)[i + 1] = "\n"

\* C21: the page recorded for each unit is the page that contains the unit's
\* boundary line, that is the last page whose start offset in the concatenated
\* text is at or before the offset of the boundary line, whatever the line
\* separators of the pages.
C21_PageOfBoundaryLine ==
    pc = "returned" =>
        /\ Len(ret) = Cardinality(Boundaries)
        /\ \A k \in 1..Len(ret) :
             ret[k].metadata.page
                = PageAt(args.raw_docs,
                         LineOffset(all_text(args.raw_docs), NthOf(Boundaries, k)))

\* The part of C21 that the code meets: texts whose line separators are all one
\* character long.
PageOfBoundaryLineWithoutCRLF ==
    (pc = "returned" /\ ~HasCRLF) =>
        \A k \in 1..Len(ret) :
            ret[k].metadata.page
               = PageAt(args.raw_docs,
                        LineOffset(all_text(args.raw_docs), NthOf(Boundaries, k)))

\* A unit of the second page of a text with one-character separators got page 1.
UnitOnSecondPage ==
    /\ pc = "returned"
    /\ ~HasCRLF
    /\ \E k \in 1..Len(ret) : ret[k].metadata.page = 1

\* The number of iterations the window loop makes on page d when nothing stops
\* it early: one per multiple of chunk_size - overlap below the page length.
FullIterations(d) ==
    LET step == args.chunk_size - args.overlap
        N    == Len(d.page_content)
    IN  IF N = 0 THEN 0 ELSE ((N - 1) \div step) + 1

\* The number of iterations on page d: for the two splitters whose loop breaks,
\* up to and including the first whitespace-only window.
Iterations(d) ==
    LET W     == SlidingWindows(d)
        blank == {k \in 1..Len(W) : Strip(W[k]) = <<>>}
    IN  IF pc \in {"returned_de", "returned_fm"} /\ blank # {}
        THEN SetMin(blank)
        ELSE FullIterations(d)

\* C22: with 0 <= overlap < chunk size the window loop of each fixed-window
\* splitter terminates on every page: its start moves up by chunk size minus
\* overlap on each iteration, so the windows visited on a page start exactly at
\* the multiples of that step below the page length, in order (for the
\* German-procedure and free-movement splitters, up to the first
\* whitespace-only window), and there are at most as many as the page has
\* characters.
C22_WindowStartsAreMultiplesOfStep ==
    (WindowsReturned /\ 0 <= args.overlap /\ args.overlap < args.chunk_size) =>
        \A p \in 1..Len(args.raw_docs) :
            LET d == args.raw_docs[p]
                W == WindowsOf(d)
            IN  /\ Len(W) = Iterations(d)
                /\ Len(W) <= Len(d.page_content)
                /\ \A k \in 1..Len(W) :
                      /\ W[k].start = (k - 1) * (args.chunk_size - args.overlap)
                      /\ W[k].start < Len(d.page_content)
                      /\ W[k].end = W[k].start + args.chunk_size
                /\ \A k \in 1..(Len(W) - 1) :
                      W[k + 1].start - W[k].start = args.chunk_size - args.overlap

\* C22: split_de_procedure_into_chunks has returned with an overlap above zero
\* after walking one page in three or more windows to its end and leaving
\* another at a whitespace-only window before its end.
C22_Witness ==
    /\ pc = "returned_de"
    /\ args.overlap > 0
    /\ \E p \in 1..Len(args.raw_docs) :
          /\ Len(WindowsOf(args.raw_docs[p])) >= 3
          /\ Len(WindowsOf(args.raw_docs[p])) = FullIterations(args.raw_docs[p])
    /\ \E p \in 1..Len(args.raw_docs) :
          /\ Len(WindowsOf(args.raw_docs[p])) >= 2
          /\ Len(WindowsOf(args.raw_docs[p])) < FullIterations(args.raw_docs[p])

\* The same for split_subsidiary_into_chunks, whose loop never breaks: a page
\* walked in two or more windows, one of which gave no chunk.
SubsidiaryWalkedToEnd ==
    /\ pc = "returned_subs"
    /\ \E p \in 1..Len(args.raw_docs) :
          /\ Len(WindowsOf(args.raw_docs[p])) >= 2
          /\ Len(WindowsOf(args.raw_docs[p])) = FullIterations(args.raw_docs[p])
    /\ Len(ret) < Len(trace)

\* The unit type whose source ingest_all has just finished ingesting, by the step
\* it has moved on to.
IngestedLabel ==
    CASE pc = "split_charter"      -> "Article"
      [] pc = "split_de_procedure" -> "CharterArticle"
      [] pc = "split_subsidiary"   -> "DEProcedure"
      [] pc = "split_free_move"    -> "SubsidiarySection"
      [] pc = "split_geneva"       -> "FreeMovementSection"
      [] pc = "create_indexes"     -> "GenevaArticle"

\* An ingest function has just returned to ingest_all: documents still holds the
\* units emitted for its source.
SourceIngested ==
    /\ pc = after
    /\ pc \in {"split_charter", "split_de_procedure", "split_subsidiary",
               "split_free_move", "split_geneva", "create_indexes"}

\* The upserts of the run for the units of a type, in processing order.
UpsertsOf(label) == SelectSeq(queries, LAMBDA q : q.label = label)

\* The article number in the metadata of an emitted unit, whichever key holds it.
DocNumber(d) ==
    LET ks == DOMAIN d.metadata
                \cap {"article_number", "charter_article_number", "geneva_article_number"}
    IN  d.metadata[CHOOSE k \in ks : TRUE]

\* No two unit nodes of one type have the same identifier.
UnitIdentifiersUnique ==
    \A n \in UnitNodes : \A m \in UnitNodes :
        (n.label = m.label /\ n.props.id = m.props.id) => n = m

\* C23: at every point of an ingestion run no two unit nodes of one type share
\* an identifier; when a source has been ingested, every unit emitted for it was
\* upserted, the store holds as many nodes of its type as there are distinct
\* canonical contents among the emitted units, and the node of each canonical
\* content carries the page, source and article number of the last emitted unit
\* with that content.
C23_OneNodePerCanonicalContent ==
    /\ UnitIdentifiersUnique
    /\ SourceIngested =>
          LET E == UpsertsOf(IngestedLabel)
              N == NodesOfLabel(graph, IngestedLabel)
              last(k) == \A j \in (k + 1)..Len(E) :
                             CanonicalContent(E[j]) # CanonicalContent(E[k])
          IN  /\ Len(E) = Len(documents)
              /\ \A k \in 1..Len(E) : E[k].props.text = documents[k].page_content
              /\ Cardinality(N) = Cardinality({CanonicalContent(E[k]) : k \in 1..Len(E)})
              /\ \A k \in 1..Len(E) :
                    last(k) =>
                      \E n \in N :
                        /\ n.props.id = E[k].id
                        /\ n.props.text = documents[k].page_content
                        /\ n.props.page = documents[k].metadata.page
                        /\ n.props.source = documents[k].metadata.source
                        /\ IngestedLabel \in ArticleLabels =>
                              NumberOf(n) = DocNumber(documents[k])

\* C23: the Dublin source has been ingested; three units were emitted, the first
\* two with the same text on pages 0 and 1, and the store holds two Article
\* nodes, the one of the repeated text with page 1.
C23_Witness ==
    /\ SourceIngested
    /\ pc = "split_charter"
    /\ Len(documents) = 3
    /\ documents[1].page_content = documents[2].page_content
    /\ documents[1].metadata.page = 0
    /\ documents[2].metadata.page = 1
    /\ Cardinality(NodesOfLabel(graph, "Article")) = 2
    /\ \E n \in NodesOfLabel(graph, "Article") :
          n.props.text = documents[1].page_content /\ n.props.page = 1

\* The same for a topic-tagged source: the subsidiary source gave two chunks with
\* the same text and topic on two pages, kept as one node with the later page.
SubsidiaryRepeatedChunkOneNode ==
    /\ SourceIngested
    /\ pc = "split_free_move"
    /\ Len(documents) = 2
    /\ Cardinality(NodesOfLabel(graph, "SubsidiarySection")) = 1
    /\ \A n \in NodesOfLabel(graph, "SubsidiarySection") : n.props.page = 1

\* The same when one ingest function is called on a hand-made list of units, where
\* units with one canonical content may differ in page, source and article
\* number: each unit has one node, with the attributes of its last upsert.
LastUnitWinsAcrossSources ==
    pc \in {"call_again", "called_twice"} =>
        /\ UnitIdentifiersUnique
        /\ Cardinality(UnitNodes) = Cardinality({CanonicalContent(q) : q \in Sent})
        /\ \A k \in 1..Len(queries) :
              LastUpsert(k) =>
                  /\ Cardinality(NodesOf(queries[k])) = 1
                  /\ \A n \in NodesOf(queries[k]) :
                        n.props = [id |-> queries[k].id] @@ queries[k].props

\* An ingest function has persisted two article units with the same text and
\* different pages, sources and numbers as one node, with those of the second.
SecondSourceWins ==
    /\ pc = "call_again"
    /\ Len(queries) = 2
    /\ queries[1].label = "Article"
    /\ queries[1].id = queries[2].id
    /\ queries[1].props.source # queries[2].props.source
    /\ NumberOf(queries[1]) # NumberOf(queries[2])
    /\ Cardinality(UnitNodes) = 1
    /\ \A n \in UnitNodes : /\ n.props.source = queries[2].props.source
                             /\ n.props.page = queries[2].props.page
                             /\ NumberOf(n) = NumberOf(queries[2])

=============================================================================
